---- MODULE Spec2Model ----
(***************************************************************************)
(* The generative music-theory engine of MindMelody:                       *)
(*   src/utils/music_theory.py  scales, chords, progressions, the melody,  *)
(*                              bass-line and rhythm-pattern generators    *)
(*   src/music_generator.py     MusicGenerator: one part per instrument    *)
(*   src/models/music_model.py  MusicParameters                            *)
(*   src/models/style_model.py  StyleModel: the progressions of a style    *)
(*   src/ai_composer.py         AIComposer: compose, suggest_parameters    *)
(*                                                                         *)
(* Conventions of the model                                                *)
(*   - a Python str that the code indexes, filters or concatenates (note   *)
(*     names, roman numerals) is a sequence of one-character strings:      *)
(*     "C#" is <<"C","#">>, "bVII" is <<"b","V","I","I">>;                 *)
(*   - a Python float is the rational it denotes, <<num, den>> in lowest   *)
(*     terms with den > 0 (exact arithmetic);                              *)
(*   - Python lists are sequences; At(s, i) is s[i] with Python's 0-based  *)
(*     index;                                                              *)
(*   - every draw from a random source that was not seeded is a            *)
(*     nondeterministic choice; a seeded source yields its stream.         *)
(***************************************************************************)
EXTENDS Integers, Sequences, FiniteSets, TLC

VARIABLES
    pc,        \* control location of the running call
    theory,    \* the last call of a pure function, with its result
    rhythm,    \* frame of generate_rhythm_pattern
    gen,       \* frame of generate_melody / generate_bass_line
    part,      \* frame of a MusicGenerator._generate_*_part call and its Part
    score,     \* frame of MusicGenerator.generate and its Score
    rng,       \* the process-wide random sources: random and numpy.random
    other,     \* frame of a call running on a second thread
    runs       \* what an observer of seeded runs has written down

vars == <<pc, theory, rhythm, gen, part, score, rng, other, runs>>

\* a frame no call is using
Idle == [fn |-> "none"]

----------------------------------------------------------------------------
(* Exact rationals for Python floats *)

RECURSIVE GCD(_, _)
GCD(a, b) == IF b = 0 THEN a ELSE GCD(b, a % b)

Abs(n) == IF n < 0 THEN -n ELSE n

\* n/d in lowest terms, d > 0
Q(n, d) == LET g == GCD(Abs(n), d) IN <<n \div g, d \div g>>

QAdd(a, b) == Q(a[1] * b[2] + b[1] * a[2], a[2] * b[2])
QMul(a, b) == Q(a[1] * b[1], a[2] * b[2])
\* a / b for b > 0
QDiv(a, b) == Q(a[1] * b[2], a[2] * b[1])
QLt(a, b) == a[1] * b[2] < b[1] * a[2]
QLe(a, b) == a[1] * b[2] <= b[1] * a[2]
QMax(a, b) == IF QLt(a, b) THEN b ELSE a
QMin(a, b) == IF QLt(b, a) THEN b ELSE a

RECURSIVE QSum(_)
QSum(s) == IF s = <<>> THEN Q(0, 1) ELSE QAdd(Head(s), QSum(Tail(s)))

\* Python's None, and the truth value Python gives an Optional[float]
None == <<>>
Truthy(x) == x # None /\ x[1] # 0
\* x or default
Or(x, default) == IF Truthy(x) THEN x ELSE default

----------------------------------------------------------------------------
(* Python list and str helpers *)

At(s, i) == s[i + 1]
Take(s, n) == SubSeq(s, 1, IF n < Len(s) THEN n ELSE Len(s))
Contains(s, c) == \E i \in 1..Len(s) : s[i] = c
\* sub in s, for strings
HasSubstring(s, sub) ==
    \E i \in 1..(Len(s) - Len(sub) + 1) : SubSeq(s, i, i + Len(sub) - 1) = sub
\* s.startswith(prefix)
startswith(s, prefix) ==
    Len(prefix) <= Len(s) /\ SubSeq(s, 1, Len(prefix)) = prefix
\* s.split(sep)[0]: what precedes the first occurrence of sep, or all of s
SplitFirst(s, sep) ==
    IF HasSubstring(s, sep)
    THEN LET i == CHOOSE k \in 1..(Len(s) - Len(sep) + 1) :
                      /\ SubSeq(s, k, k + Len(sep) - 1) = sep
                      /\ \A j \in 1..(k - 1) : SubSeq(s, j, j + Len(sep) - 1) # sep
         IN SubSeq(s, 1, i - 1)
    ELSE s
\* list.index(x), for x in the list
IndexOf(list, x) ==
    CHOOSE i \in 0..(Len(list) - 1) :
        /\ list[i + 1] = x
        /\ \A j \in 0..(i - 1) : list[j + 1] # x

UpperLetters == {"A", "B", "C", "D", "E", "F", "G", "I", "V", "X"}
LowerLetters == {"a", "b", "d", "g", "i", "j", "m", "u", "v", "x"}
\* c.isalpha(), over the characters the model's strings are made of
isalpha(c) == c \in UpperLetters \cup LowerLetters
\* s.isupper(): some cased character, and none of them lower case
isupper(s) ==
    /\ \E i \in 1..Len(s) : s[i] \in UpperLetters
    /\ \A i \in 1..Len(s) : s[i] \notin LowerLetters
\* str.lower(), over the spellings of the modes and styles of the model
lower(mode) ==
    CASE mode = "Major" -> "major"
      [] mode = "MAJOR" -> "major"
      [] mode = "Minor" -> "minor"
      [] mode = "MINOR" -> "minor"
      [] mode = "Jazz" -> "jazz"
      [] mode = "Rock" -> "rock"
      [] OTHER -> mode

----------------------------------------------------------------------------
(* The random sources.  random (the module-level functions of the standard   *)
(* library, which all act on one hidden Random instance of the process) and *)
(* numpy.random (the global RandomState) are two generators, each with its  *)
(* own state.  A source that the program has not seeded starts from the     *)
(* entropy of the system: each of its draws is any value of the set drawn   *)
(* from.  A seeded source is a function of the seed and of the place in its *)
(* stream: rng.tape holds, for each source and seed, the variates of the    *)
(* stream, of which the model takes one for the draws of one step; the tape *)
(* is any function of the place, repeating after Period places.             *)

Seeds == {1, 2}
Period == 3
Variates == {0, 1}
Sources == {"random", "np_random"}
Tapes == [Seeds -> [0..(Period - 1) -> Variates]]

\* a source as the interpreter starts it
Fresh == [seeded |-> FALSE, seed |-> 0, pos |-> 0]

\* both sources unseeded; the tapes are not read
Unseeded ==
    [random |-> Fresh, np_random |-> Fresh,
     tape |-> [src \in Sources |-> [s \in Seeds |-> [i \in 0..(Period - 1) |-> 0]]]]

\* a seed call that would leave the place in the stream where it is
seed_KeepsPlace(source, s) == [source EXCEPT !.seeded = TRUE, !.seed = s]

\* random.seed(s), np.random.seed(s): the stream of s from its start
seed(source, s) == [seeded |-> TRUE, seed |-> s, pos |-> 0]

\* the elements of a finite set, in a fixed order
RECURSIVE Enum(_)
Enum(S) ==
    IF S = {} THEN <<>>
    ELSE LET x == CHOOSE y \in S : TRUE
         IN  <<x>> \o Enum(S \ {x})

\* what a draw from the set S yields on the variate u: the variates are
\* spread over the set, from its first element to its last
Pick(S, u) ==
    LET n == Cardinality(S)
    IN  Enum(S)[1 + ((u * (n - 1)) % n)]

\* the variate a seeded source yields next
Variate(src) == rng.tape[src][rng[src].seed][rng[src].pos]

\* what an observer of a run sees of it when a draw is made
View == <<pc, rhythm, gen, part, score>>

\* the observer's notes after a draw: the first run is written down, the
\* second is compared with the first, draw by draw
Observe ==
    IF runs.fn # "runs" THEN runs
    ELSE IF runs.run = 1 THEN [runs EXCEPT !.seen = Append(@, View)]
    ELSE [runs EXCEPT
             !.at = @ + 1,
             !.same = @ /\ runs.at < Len(runs.seen) /\ runs.seen[runs.at + 1] = View]

\* the source src yields x to a draw from the set S
Yields(src, S, x) ==
    IF ~rng[src].seeded
    THEN /\ x \in S
         /\ UNCHANGED rng
    ELSE /\ x = Pick(S, Variate(src))
         /\ rng' = [rng EXCEPT ![src].pos = (@ + 1) % Period]

\* the step of the observed run draws x from the set S, on the source random
Draw(S, x) ==
    /\ Yields("random", S, x)
    /\ runs' = Observe

----------------------------------------------------------------------------
(* music_theory.py: tables *)

MAJOR_SCALE_STEPS == <<0, 2, 4, 5, 7, 9, 11>>
MINOR_SCALE_STEPS == <<0, 2, 3, 5, 7, 8, 10>>

NOTE_NAMES ==
    << <<"C">>, <<"C", "#">>, <<"D">>, <<"D", "#">>, <<"E">>, <<"F">>,
       <<"F", "#">>, <<"G">>, <<"G", "#">>, <<"A">>, <<"A", "#">>, <<"B">> >>

rest == <<"r", "e", "s", "t">>

\* the keys of ROMAN_TO_SCALE_DEGREE
RomanKeys ==
    { <<"I">>, <<"I", "I">>, <<"I", "I", "I">>, <<"I", "V">>, <<"V">>,
      <<"V", "I">>, <<"V", "I", "I">>,
      <<"i">>, <<"i", "i">>, <<"i", "i", "i">>, <<"i", "v">>, <<"v">>,
      <<"v", "i">>, <<"v", "i", "i">> }

ROMAN_TO_SCALE_DEGREE(numeral) ==
    CASE numeral \in {<<"I">>, <<"i">>} -> 0
      [] numeral \in {<<"I", "I">>, <<"i", "i">>} -> 1
      [] numeral \in {<<"I", "I", "I">>, <<"i", "i", "i">>} -> 2
      [] numeral \in {<<"I", "V">>, <<"i", "v">>} -> 3
      [] numeral \in {<<"V">>, <<"v">>} -> 4
      [] numeral \in {<<"V", "I">>, <<"v", "i">>} -> 5
      [] numeral \in {<<"V", "I", "I">>, <<"v", "i", "i">>} -> 6

----------------------------------------------------------------------------
(* music_theory.py: get_note_index, get_scale_notes *)

flat_map(note_name) ==
    CASE note_name = <<"D", "b">> -> <<"C", "#">>
      [] note_name = <<"E", "b">> -> <<"D", "#">>
      [] note_name = <<"G", "b">> -> <<"F", "#">>
      [] note_name = <<"A", "b">> -> <<"G", "#">>
      [] note_name = <<"B", "b">> -> <<"A", "#">>
      [] OTHER -> note_name

\* the name after the flat-to-sharp rewriting of lines 41-44
Sharpened(note_name) ==
    IF Contains(note_name, "b") THEN flat_map(note_name) ELSE note_name

\* note_name[0] (IndexError) or NOTE_NAMES.index (ValueError) raises
get_note_index_raises(note_name) ==
    \/ note_name = <<>>
    \/ ~Contains(NOTE_NAMES, <<Sharpened(note_name)[1]>>)

\* the flat taken off the index without the wrap to 0..11
get_note_index_NoWrap(note_name) ==
    LET name == Sharpened(note_name)
        base_note == <<name[1]>>
        index == IndexOf(NOTE_NAMES, base_note)
    IN  IF Len(name) > 1
        THEN IF name[2] = "#" THEN (index + 1) % 12
             ELSE IF name[2] = "b" THEN index - 1
             ELSE index
        ELSE index

get_note_index(note_name) ==
    LET name == Sharpened(note_name)
        base_note == <<name[1]>>
        index == IndexOf(NOTE_NAMES, base_note)
    IN  IF Len(name) > 1
        THEN IF name[2] = "#" THEN (index + 1) % 12
             ELSE IF name[2] = "b" THEN (index - 1) % 12
             ELSE index
        ELSE index

\* the scale built one semitone above the root
get_scale_notes_Shifted(key, mode) ==
    LET root_index == get_note_index(key)
        scale_steps == IF lower(mode) = "major" THEN MAJOR_SCALE_STEPS
                       ELSE MINOR_SCALE_STEPS
    IN  [k \in 1..Len(scale_steps) |->
            At(NOTE_NAMES, (root_index + scale_steps[k] + 1) % 12)]

get_scale_notes(key, mode) ==
    LET root_index == get_note_index(key)
        scale_steps == IF lower(mode) = "major" THEN MAJOR_SCALE_STEPS
                       ELSE MINOR_SCALE_STEPS
    IN  [k \in 1..Len(scale_steps) |->
            At(NOTE_NAMES, (root_index + scale_steps[k]) % 12)]

----------------------------------------------------------------------------
(* music_theory.py: get_chord_notes *)

\* the one-character string the model writes for the degree sign of 'vii°'
degree_sign == "~"

\* lines 101-105: the letters of the symbol, or I/i when they are no key of the table
base_numeral_BadFallback(mode, roman_numeral) ==
    LET alpha == SelectSeq(roman_numeral, isalpha)
    IN  IF alpha \notin RomanKeys THEN <<"V">> ELSE alpha

base_numeral_of(mode, roman_numeral) ==
    LET alpha == SelectSeq(roman_numeral, isalpha)
    IN  IF alpha \notin RomanKeys
        THEN (IF lower(mode) = "major" THEN <<"I">> ELSE <<"i">>)
        ELSE alpha

\* lines 153-155: the seventh of the chord on a degree
chord_seventh_BadDegree(scale_notes, degree) == At(scale_notes, (degree + 7) % 7)

chord_seventh(scale_notes, degree) == At(scale_notes, (degree + 6) % 7)

get_chord_notes(key, mode, roman_numeral) ==
    LET scale_notes == get_scale_notes(key, mode)
        base_numeral == base_numeral_of(mode, roman_numeral)
        degree == ROMAN_TO_SCALE_DEGREE(base_numeral)
        is_major == isupper(base_numeral)
        is_diminished == \/ HasSubstring(roman_numeral, <<"d", "i", "m">>)
                         \/ Contains(roman_numeral, degree_sign)
        is_augmented == \/ HasSubstring(roman_numeral, <<"a", "u", "g">>)
                        \/ Contains(roman_numeral, "+")
        is_seventh == Contains(roman_numeral, "7")
        root == At(scale_notes, degree)
        third == IF is_major /\ ~is_diminished
                 THEN At(scale_notes, (degree + 2) % 7)
                 ELSE At(scale_notes, (degree + 2) % 7)
        fifth == IF is_diminished
                 THEN Append(At(scale_notes, (degree + 4) % 7), "b")
                 ELSE IF is_augmented
                 THEN Append(At(scale_notes, (degree + 4) % 7), "#")
                 ELSE At(scale_notes, (degree + 4) % 7)
        triad == <<root, third, fifth>>
    IN  IF is_seventh
        THEN Append(triad, chord_seventh(scale_notes, degree))
        ELSE triad

----------------------------------------------------------------------------
(* music_theory.py: get_chord_progression *)

major_progressions ==
    << << <<"I">>, <<"I", "V">>, <<"V">>, <<"I">> >>,
       << <<"I">>, <<"v", "i">>, <<"I", "V">>, <<"V">> >>,
       << <<"I">>, <<"V">>, <<"v", "i">>, <<"I", "V">> >>,
       << <<"i", "i">>, <<"V">>, <<"I">>, <<"I", "V">> >> >>

minor_progressions ==
    << << <<"i">>, <<"i", "v">>, <<"v">>, <<"i">> >>,
       << <<"i">>, <<"V", "I">>, <<"I", "I", "I">>, <<"V", "I", "I">> >>,
       << <<"i">>, <<"i", "v">>, <<"V", "I", "I">>, <<"I", "I", "I">> >>,
       << <<"i">>, <<"v">>, <<"V", "I">>, <<"v">> >> >>

\* while len(repeated) < length: repeated.extend(progression)
RECURSIVE Repeat(_, _, _)
Repeat(repeated, progression, length) ==
    IF Len(repeated) < length
    THEN Repeat(repeated \o progression, progression, length)
    ELSE repeated

\* the repeated progression returned without the cut to length
get_chord_progression_NoCut(key, mode, length, choice) ==
    LET progressions == IF lower(mode) = "major" THEN major_progressions
                        ELSE minor_progressions
        progression == At(progressions, choice)
    IN  IF length > Len(progression)
        THEN Repeat(<<>>, progression, length)
        ELSE IF length < Len(progression)
        THEN Take(progression, length)
        ELSE progression

\* choice: the 0-based index random.choice draws among the progressions
get_chord_progression(key, mode, length, choice) ==
    LET progressions == IF lower(mode) = "major" THEN major_progressions
                        ELSE minor_progressions
        progression == At(progressions, choice)
    IN  IF length > Len(progression)
        THEN Take(Repeat(<<>>, progression, length), length)
        ELSE IF length < Len(progression)
        THEN Take(progression, length)
        ELSE progression

----------------------------------------------------------------------------
(* music_theory.py: generate_rhythm_pattern *)

\* lines 353-361: the durations random.choice draws from
available_durations(complexity) ==
    IF QLt(complexity, Q(3, 10))
    THEN <<Q(2, 1), Q(1, 1), Q(1, 1), Q(1, 1)>>
    ELSE IF QLt(complexity, Q(6, 10))
    THEN <<Q(2, 1), Q(1, 1), Q(1, 1), Q(1, 2), Q(1, 2)>>
    ELSE <<Q(1, 1), Q(1, 2), Q(1, 2), Q(1, 4), Q(1, 4)>>

\* line 369
target_duration == Q(4, 1)

\* line 371: the loop condition
rhythm_continues_Inclusive(total_duration) == QLe(total_duration, target_duration)

rhythm_continues(total_duration) == QLt(total_duration, target_duration)

\* lines 364-365: the frame on entry; caller says where the pattern returns to
RhythmFrame(complexity, caller) ==
    [fn |-> "generate_rhythm_pattern", caller |-> caller,
     complexity |-> complexity, pattern |-> <<>>, total_duration |-> Q(0, 1),
     returned |-> FALSE]

\* lines 371-377: one iteration of the loop
RhythmDraw ==
    /\ pc = "generate_rhythm_pattern"
    /\ rhythm_continues(rhythm.total_duration)
    /\ LET pool == available_durations(rhythm.complexity)
       IN  \E k \in 0..(Len(pool) - 1) :
              LET duration == At(pool, k)
              IN  /\ Draw(0..(Len(pool) - 1), k)
                  /\ rhythm' = [rhythm EXCEPT
                         !.pattern = Append(@, duration),
                         !.total_duration = QAdd(@, duration)]
    /\ UNCHANGED <<pc, theory, gen, part, score, other>>

\* complexities at and around the thresholds 0.3 and 0.6 of the duration pools
Complexities == {Q(0, 1), Q(29, 100), Q(3, 10), Q(59, 100), Q(6, 10), Q(1, 1)}

\* a caller outside the generators asks for one pattern
CallRhythmPattern ==
    /\ pc = "call_rhythm"
    /\ \E complexity \in Complexities :
          rhythm' = RhythmFrame(complexity, "direct")
    /\ pc' = "generate_rhythm_pattern"
    /\ UNCHANGED <<theory, gen, part, score, rng, other, runs>>

\* line 379, returning to that caller
RhythmReturn ==
    /\ pc = "generate_rhythm_pattern"
    /\ rhythm.caller = "direct"
    /\ ~rhythm_continues(rhythm.total_duration)
    /\ pc' = "returned"
    /\ UNCHANGED <<theory, rhythm, gen, part, score, rng, other, runs>>

----------------------------------------------------------------------------
(* music_generator.py: MusicGenerator._get_chord_notes *)

MG_get_chord_notes(chord_name, scale_notes) ==
    LET base_chord ==
            SplitFirst(SplitFirst(SplitFirst(chord_name, <<"7">>),
                                  <<"d", "i", "m">>), <<"a", "u", "g">>)
    IN  IF base_chord \in RomanKeys
        THEN LET root_idx == ROMAN_TO_SCALE_DEGREE(base_chord)
                 root == At(scale_notes, root_idx)
                 third == At(scale_notes, (root_idx + 2) % 7)
                 fifth == At(scale_notes, (root_idx + 4) % 7)
             IN  IF Contains(chord_name, "7")
                 THEN <<root, third, fifth, At(scale_notes, (root_idx + 6) % 7)>>
                 ELSE <<root, third, fifth>>
        ELSE <<At(scale_notes, 0), At(scale_notes, 2), At(scale_notes, 4)>>

----------------------------------------------------------------------------
(* music21 streams and elements, as far as MusicGenerator uses them.        *)
(* An element is a record of its kind, pitches, quarterLength, velocity and *)
(* the offset it was inserted at.  A Measure is kept as its number, the     *)
(* count of its elements and what their placement amounts to: the offset of *)
(* the first and of the latest element, the highest end time, whether each  *)
(* element began where the elements before it ended (contiguous) and        *)
(* whether each was put after the one before it (increasing).  A Part is    *)
(* kept as the count of its measures and, in the state an append leads to,  *)
(* the measure appended (every measure of the part is seen once, in that    *)
(* state).  The element made last, a local of the loops, is kept as n until *)
(* the next step of the part or of its generator.                           *)

Note(pitch, quarterLength, velocity) ==
    [kind |-> "Note", pitches |-> <<pitch>>, quarterLength |-> quarterLength,
     velocity |-> velocity]

Rest(quarterLength) ==
    [kind |-> "Rest", pitches |-> <<>>, quarterLength |-> quarterLength,
     velocity |-> None]

Chord(pitches, quarterLength, velocity) ==
    [kind |-> "Chord", pitches |-> pitches, quarterLength |-> quarterLength,
     velocity |-> velocity]

\* stream.Measure(number=number)
Measure(number) ==
    [number |-> number, count |-> 0, first |-> None, last_offset |-> None,
     highest |-> Q(0, 1), contiguous |-> TRUE, increasing |-> TRUE]

\* measure.insert(offset, n)
insert(measure, offset, n) ==
    [measure EXCEPT
        !.count = @ + 1,
        !.first = IF measure.count = 0 THEN offset ELSE @,
        !.last_offset = offset,
        !.highest = QMax(@, QAdd(offset, n.quarterLength)),
        !.contiguous = @ /\ offset = measure.highest,
        !.increasing = @ /\ (measure.count = 0 \/ QLt(measure.last_offset, offset))]

\* what a Part keeps of a measure appended to it
Sealed(measure) ==
    [number |-> measure.number, count |-> measure.count, first |-> measure.first,
     highest |-> measure.highest, contiguous |-> measure.contiguous,
     increasing |-> measure.increasing]

\* part.append(measure)
append(p, measure) == [p EXCEPT !.measures = @ + 1, !.appended = Sealed(measure)]

\* a step that appends nothing and makes no element
Forget(p) == [p EXCEPT !.appended = Idle, !.n = Idle]

\* the draws the model takes of random.randint(lo, hi): its two ends
randint(lo, hi) == {lo, hi}

----------------------------------------------------------------------------
(* music_generator.py: the packing loop of _generate_melody_part (lines     *)
(* 105-138) and _generate_bass_part (lines 150-180)                         *)

\* lines 105-107, 150-152
PartFrame(fn) ==
    [fn |-> fn, measures |-> 0, appended |-> Idle, measure |-> Measure(1),
     current_measure |-> 1, offset |-> Q(0, 1), n |-> Idle]

\* the loop body without the reset of offset for a new measure
pack_NoReset(p, note_info, velocity) ==
    LET pitch == note_info[1]
        duration == note_info[2]
        n == IF pitch = rest THEN Rest(duration) ELSE Note(pitch, duration, velocity)
        opened == IF QLt(Q(4, 1), QAdd(p.offset, duration))
                  THEN [append(p, p.measure) EXCEPT
                           !.current_measure = @ + 1,
                           !.measure = Measure(p.current_measure + 1)]
                  ELSE Forget(p)
    IN  [opened EXCEPT
            !.measure = insert(@, opened.offset, n),
            !.offset = QAdd(@, duration),
            !.n = n @@ [offset |-> opened.offset]]

\* lines 109-134, 154-176: one iteration on note_info = (pitch, duration);
\* velocity is the note's velocity (a rest has none)
pack(p, note_info, velocity) ==
    LET pitch == note_info[1]
        duration == note_info[2]
        n == IF pitch = rest THEN Rest(duration) ELSE Note(pitch, duration, velocity)
        opened == IF QLt(Q(4, 1), QAdd(p.offset, duration))
                  THEN [append(p, p.measure) EXCEPT
                           !.current_measure = @ + 1,
                           !.measure = Measure(p.current_measure + 1),
                           !.offset = Q(0, 1)]
                  ELSE Forget(p)
    IN  [opened EXCEPT
            !.measure = insert(@, opened.offset, n),
            !.offset = QAdd(@, duration),
            !.n = n @@ [offset |-> opened.offset]]

----------------------------------------------------------------------------
(* music_theory.py: generate_melody and generate_bass_line.                 *)
(* The list a generator returns is read once, in order, by the packing loop *)
(* of its caller, which keeps no other state of it; the model hands each    *)
(* event to that loop as soon as it is appended.  gen.out holds the events  *)
(* appended and not yet packed, gen.total the duration of all the events    *)
(* appended so far.                                                         *)

\* lines 222-225, 292-295
GenFrame(fn, scale_notes, chord_progression, num_measures, rhythm_variation) ==
    [fn |-> fn, scale_notes |-> scale_notes, progression |-> chord_progression,
     num_measures |-> num_measures, rhythm_variation |-> rhythm_variation,
     extended_progression |-> <<>>, chord_progression |-> <<>>,
     measure_idx |-> 0, chord |-> <<>>, chord_tones |-> <<>>,
     rhythm_pattern |-> <<>>, out |-> <<>>, total |-> Q(0, 1),
     error |-> "none"]

\* an exception leaves the generator: nothing is returned and no part is built
Raise(error) ==
    /\ pc' = "raised"
    /\ gen' = [gen EXCEPT !.error = error, !.out = <<>>]
    /\ part' = [part EXCEPT !.measures = 0, !.appended = Idle, !.measure = Idle,
                            !.n = Idle]

\* lines 226, 296 (and music_generator.py line 189): the condition of the
\* while loop holds, and its body is entered
GenWhile ==
    /\ pc = "extend"
    /\ Len(gen.extended_progression) < gen.num_measures
    /\ pc' = "extending"
    /\ UNCHANGED <<theory, rhythm, gen, part, score, rng, other, runs>>

\* lines 227, 297 (and music_generator.py line 190): the body of the while
\* loop, which goes back to its condition
GenExtend ==
    /\ pc = "extending"
    /\ gen' = [gen EXCEPT !.extended_progression = @ \o gen.progression]
    /\ pc' = "extend"
    /\ UNCHANGED <<theory, rhythm, part, score, rng, other, runs>>

\* lines 228, 298
GenTruncate ==
    /\ pc = "extend"
    /\ ~(Len(gen.extended_progression) < gen.num_measures)
    /\ gen' = [gen EXCEPT
                  !.chord_progression = Take(gen.extended_progression, gen.num_measures)]
    /\ pc' = "measure"
    /\ UNCHANGED <<theory, rhythm, part, score, rng, other, runs>>

\* lines 235-249: the scale degrees of the chord tones, by the first branch of
\* the if/elif chain that matches
chord_tone_degrees(chord) ==
    IF startswith(chord, <<"I">>) \/ startswith(chord, <<"i">>)
    THEN <<0, 2, 4>>
    ELSE IF startswith(chord, <<"I", "I">>) \/ startswith(chord, <<"i", "i">>)
    THEN <<1, 3, 5>>
    ELSE IF startswith(chord, <<"I", "I", "I">>) \/ startswith(chord, <<"i", "i", "i">>)
    THEN <<2, 4, 6>>
    ELSE IF startswith(chord, <<"I", "V">>) \/ startswith(chord, <<"i", "v">>)
    THEN <<3, 5, 0>>
    ELSE IF startswith(chord, <<"V">>) \/ startswith(chord, <<"v">>)
    THEN <<4, 6, 1>>
    ELSE IF startswith(chord, <<"V", "I">>) \/ startswith(chord, <<"v", "i">>)
    THEN <<5, 0, 2>>
    ELSE IF startswith(chord, <<"V", "I", "I">>) \/ startswith(chord, <<"v", "i", "i">>)
    THEN <<6, 1, 3>>
    ELSE <<>>

\* lines 231-252: the head of one iteration of the measure loop, up to the call
\* of generate_rhythm_pattern
MelodyMeasure ==
    /\ pc = "measure"
    /\ gen.fn = "generate_melody"
    /\ gen.measure_idx < gen.num_measures
    /\ LET chord == At(gen.chord_progression,
                       gen.measure_idx % Len(gen.chord_progression))
           degrees == chord_tone_degrees(chord)
       IN  IF \E k \in 1..Len(degrees) : degrees[k] >= Len(gen.scale_notes)
           THEN Raise("IndexError") /\ UNCHANGED rhythm
           ELSE /\ gen' = [gen EXCEPT
                              !.chord = chord,
                              !.chord_tones =
                                  [k \in 1..Len(degrees) |->
                                      At(gen.scale_notes, degrees[k])]]
                /\ rhythm' = RhythmFrame(gen.rhythm_variation, "generate_melody")
                /\ pc' = "generate_rhythm_pattern"
                /\ part' = Forget(part)
    /\ UNCHANGED <<theory, score, rng, other, runs>>

\* the pattern left as generate_rhythm_pattern returned it
rescale_Unscaled(rhythm_pattern) == rhythm_pattern

\* lines 255-257: the pattern scaled to the 4 beats of the measure
rescale(rhythm_pattern) ==
    LET total_duration == QSum(rhythm_pattern)
        scale_factor == QDiv(Q(4, 1), total_duration)
    IN  [k \in 1..Len(rhythm_pattern) |-> QMul(rhythm_pattern[k], scale_factor)]

\* lines 252-257: generate_rhythm_pattern has returned its pattern
MelodyRescale ==
    /\ pc = "generate_rhythm_pattern"
    /\ rhythm.caller = "generate_melody"
    /\ ~rhythm_continues(rhythm.total_duration)
    /\ gen' = [gen EXCEPT !.rhythm_pattern = rescale(rhythm.pattern)]
    /\ rhythm' = Idle
    /\ pc' = "notes"
    /\ UNCHANGED <<theory, part, score, rng, other, runs>>

\* lines 262-268: what the draws of one iteration can be: whether the first
\* random.random() is below 0.7, whether the second is below 0.1, and the
\* index random.choice takes
MelodyDraws ==
    {d \in BOOLEAN \X BOOLEAN \X (0..6) :
        LET choices == IF d[1] THEN gen.chord_tones ELSE gen.scale_notes
        IN  d[3] < Len(choices) \/ (d[3] = 0 /\ choices = <<>>)}

\* lines 260-272: one iteration of the note loop.  chord_tone: the first
\* random.random() is below 0.7; as_rest: the second is below 0.1
MelodyNote ==
    /\ pc = "notes"
    /\ gen.rhythm_pattern # <<>>
    /\ \E chord_tone \in BOOLEAN, as_rest \in BOOLEAN, k \in 0..6 :
          LET rhythm_value == Head(gen.rhythm_pattern)
              choices == IF chord_tone THEN gen.chord_tones ELSE gen.scale_notes
          IN  /\ k < Len(choices) \/ (k = 0 /\ choices = <<>>)
              /\ Draw(MelodyDraws, <<chord_tone, as_rest, k>>)
              /\ IF choices = <<>>
                 THEN Raise("IndexError")
                 ELSE LET note == IF as_rest THEN rest ELSE At(choices, k)
                      IN  /\ gen' = [gen EXCEPT
                                        !.rhythm_pattern = Tail(@),
                                        !.out = Append(@, <<note, rhythm_value>>),
                                        !.total = QAdd(@, rhythm_value)]
                          /\ pc' = "pack"
                          /\ part' = Forget(part)
    /\ UNCHANGED <<theory, rhythm, score, other>>

\* the note loop is exhausted: the next iteration of the measure loop
MelodyEndMeasure ==
    /\ pc = "notes"
    /\ gen.rhythm_pattern = <<>>
    /\ gen' = [gen EXCEPT !.measure_idx = @ + 1]
    /\ pc' = "measure"
    /\ part' = Forget(part)
    /\ UNCHANGED <<theory, rhythm, score, rng, other, runs>>

\* line 305: ROMAN_TO_SCALE_DEGREE.get(chord[0], 0)
root_degree_of(chord) ==
    IF <<chord[1]>> \in RomanKeys THEN ROMAN_TO_SCALE_DEGREE(<<chord[1]>>) ELSE 0

\* patterns whose walking bass ends on a chromatic approach note, the root
\* raised by a semitone
bass_patterns_Chromatic(scale_notes, root_degree) ==
    LET root_note == At(scale_notes, root_degree)
    IN  << << <<root_note, Q(4, 1)>> >>,
           << <<root_note, Q(2, 1)>>, <<root_note, Q(2, 1)>> >>,
           << <<root_note, Q(2, 1)>>,
              <<At(scale_notes, (root_degree + 4) % 7), Q(2, 1)>> >>,
           << <<root_note, Q(1, 1)>>,
              <<At(scale_notes, (root_degree + 2) % 7), Q(1, 1)>>,
              <<At(scale_notes, (root_degree + 4) % 7), Q(1, 1)>>,
              <<root_note \o <<"#">>, Q(1, 1)>> >>,
           << <<root_note, Q(1, 1)>>, <<rest, Q(1, 2)>>, <<root_note, Q(1, 1)>>,
              <<root_note, Q(1, 1)>>, <<rest, Q(1, 2)>> >> >>

\* lines 309-329
bass_patterns(scale_notes, root_degree) ==
    LET root_note == At(scale_notes, root_degree)
    IN  << << <<root_note, Q(4, 1)>> >>,
           << <<root_note, Q(2, 1)>>, <<root_note, Q(2, 1)>> >>,
           << <<root_note, Q(2, 1)>>,
              <<At(scale_notes, (root_degree + 4) % 7), Q(2, 1)>> >>,
           << <<root_note, Q(1, 1)>>,
              <<At(scale_notes, (root_degree + 2) % 7), Q(1, 1)>>,
              <<At(scale_notes, (root_degree + 4) % 7), Q(1, 1)>>,
              <<At(scale_notes, (root_degree + 6) % 7), Q(1, 1)>> >>,
           << <<root_note, Q(1, 1)>>, <<rest, Q(1, 2)>>, <<root_note, Q(1, 1)>>,
              <<root_note, Q(1, 1)>>, <<rest, Q(1, 2)>> >> >>

\* the durations of a list of (pitch, duration) events
Durations(events) == [k \in 1..Len(events) |-> events[k][2]]

\* lines 301-335: one iteration of the measure loop
BassMeasure ==
    /\ pc = "measure"
    /\ gen.fn = "generate_bass_line"
    /\ gen.measure_idx < gen.num_measures
    /\ LET chord == At(gen.chord_progression,
                       gen.measure_idx % Len(gen.chord_progression))
       IN  IF chord = <<>>
           THEN Raise("IndexError") /\ UNCHANGED <<rng, runs>>
           ELSE LET root_degree == root_degree_of(chord)
                    used == {root_degree, (root_degree + 2) % 7,
                             (root_degree + 4) % 7, (root_degree + 6) % 7}
                IN  IF \E d \in used : d >= Len(gen.scale_notes)
                    THEN Raise("IndexError") /\ UNCHANGED <<rng, runs>>
                    ELSE \E k \in 0..4 :
                           LET pattern == At(bass_patterns(gen.scale_notes,
                                                           root_degree), k)
                           IN  /\ Draw(0..4, k)
                               /\ gen' = [gen EXCEPT
                                             !.chord = chord,
                                             !.measure_idx = @ + 1,
                                             !.out = @ \o pattern,
                                             !.total = QAdd(@, QSum(Durations(pattern)))]
                               /\ pc' = "pack"
                               /\ part' = Forget(part)
    /\ UNCHANGED <<theory, rhythm, score, other>>

\* lines 274, 337: the measure loop is over and the list is returned
GenReturn ==
    /\ pc = "measure"
    /\ gen.fn \in {"generate_melody", "generate_bass_line"}
    /\ ~(gen.measure_idx < gen.num_measures)
    /\ pc' = "finish"
    /\ part' = Forget(part)
    /\ UNCHANGED <<theory, rhythm, gen, score, rng, other, runs>>

\* one iteration of the packing loop, on the oldest event not yet packed
PackEvent ==
    /\ pc = "pack"
    /\ LET note_info == Head(gen.out)
           velocities == IF note_info[1] = rest THEN {None}
                         ELSE IF gen.fn = "generate_melody" THEN randint(70, 100)
                         ELSE {90}
       IN  \E velocity \in velocities :
              /\ IF note_info[1] # rest /\ gen.fn = "generate_melody"
                 THEN Draw(velocities, velocity)
                 ELSE UNCHANGED <<rng, runs>>
              /\ part' = pack(part, note_info, velocity)
    /\ gen' = [gen EXCEPT !.out = Tail(@)]
    /\ pc' = IF Tail(gen.out) # <<>> THEN "pack"
             ELSE IF gen.fn = "generate_melody" THEN "notes"
             ELSE "measure"
    /\ UNCHANGED <<theory, rhythm, score, other>>

\* lines 136-138, 178-180: the last measure, if it holds anything
PartFinish ==
    /\ pc = "finish"
    /\ part' = IF part.measure.count > 0 THEN append(part, part.measure)
                ELSE Forget(part)
    /\ pc' = IF score.fn = "generate" THEN "insert_part" ELSE "returned"
    /\ UNCHANGED <<theory, rhythm, gen, score, rng, other, runs>>

----------------------------------------------------------------------------
(* Inputs of the pure functions *)

Letters == {"A", "B", "C", "D", "E", "F", "G"}
\* a letter A-G with an optional '#' or 'b'
Keys == {<<l>> : l \in Letters} \cup {<<l, a>> : l \in Letters, a \in {"#", "b"}}
Modes == {"major", "minor"}

\* names whose letter is none of A-G
BadKeys == { <<"H">>, <<"H", "#">>, <<"X", "b">>, <<"c">> }

Modifiers ==
    { <<>>, <<"7">>, <<"d", "i", "m">>, <<degree_sign>>, <<"a", "u", "g">>,
      <<"+">>, <<"m", "a", "j", "7">> }
\* symbols whose letters are no key of ROMAN_TO_SCALE_DEGREE
UnknownBases ==
    { <<"I", "X">>, <<"b", "V", "I", "I">>, <<"V", "I", "I", "I">>, <<"X">> }
Numerals ==
    {b \o m : b \in RomanKeys \cup UnknownBases, m \in Modifiers}

\* the scales handed to the part generators
Scales == {get_scale_notes(<<"C">>, "major"), get_scale_notes(<<"E", "b">>, "minor")}

\* the degenerate scale_notes = []
EmptyScale == <<>>

\* the progressions handed to the part generators: numerals of the table, and
\* symbols that are none ('bVII' of the rock style table, 'IX', 'Imaj7')
Progressions ==
    { << <<"I">>, <<"I", "V">>, <<"v", "i">> >>,
      << <<"i", "i">>, <<"V", "7">> >>,
      << <<"b", "V", "I", "I">> >>,
      << <<"I", "X">>, <<"I", "m", "a", "j", "7">> >> }

\* params.rhythm_variation handed to _generate_melody_part; None and 0.0 give
\* the default 0.5
Variations == {None, Q(0, 1), Q(1, 5)}

\* the most measures asked of a part generator
MaxMeasures == 2

\* the longest progression asked of get_chord_progression
MaxLength == 9

----------------------------------------------------------------------------
(* State *)

\* a caller applies one pure function of music_theory.py to inputs of its choice,
\* and the call returns
CallGetNoteIndex ==
    /\ pc = "theory"
    /\ \E note_name \in Keys \cup BadKeys :
          IF get_note_index_raises(note_name)
          THEN /\ theory' = [fn |-> "get_note_index", key |-> note_name,
                             result |-> None]
               /\ pc' = "raised"
          ELSE /\ theory' = [fn |-> "get_note_index", key |-> note_name,
                             result |-> get_note_index(note_name)]
               /\ pc' = "returned"
    /\ UNCHANGED <<rhythm, gen, part, score, rng, other, runs>>

\* get_scale_notes calls get_note_index(key) at line 73 and catches nothing
CallGetScaleNotes ==
    /\ pc = "theory"
    /\ \E key \in Keys \cup BadKeys, mode \in Modes :
          IF get_note_index_raises(key)
          THEN /\ theory' = [fn |-> "get_scale_notes", key |-> key, mode |-> mode,
                             result |-> None]
               /\ pc' = "raised"
          ELSE /\ theory' = [fn |-> "get_scale_notes", key |-> key, mode |-> mode,
                             result |-> get_scale_notes(key, mode)]
               /\ pc' = "returned"
    /\ UNCHANGED <<rhythm, gen, part, score, rng, other, runs>>

\* get_chord_notes calls get_scale_notes(key, mode) at line 98 and catches nothing
CallGetChordNotes ==
    /\ pc = "theory"
    /\ \E key \in Keys \cup BadKeys, mode \in Modes, roman_numeral \in Numerals :
          IF get_note_index_raises(key)
          THEN /\ theory' = [fn |-> "get_chord_notes", key |-> key, mode |-> mode,
                             roman_numeral |-> roman_numeral, result |-> None]
               /\ pc' = "raised"
          ELSE /\ theory' = [fn |-> "get_chord_notes", key |-> key, mode |-> mode,
                             roman_numeral |-> roman_numeral,
                             result |-> get_chord_notes(key, mode, roman_numeral)]
               /\ pc' = "returned"
    /\ UNCHANGED <<rhythm, gen, part, score, rng, other, runs>>

\* music_generator.py line 200: the chord-comping generator resolves the chord
\* of a measure, on the scale generate built at line 50
CallMGGetChordNotes ==
    /\ pc = "theory"
    /\ \E key \in Keys, mode \in Modes, chord_name \in Numerals :
          theory' = [fn |-> "_get_chord_notes", key |-> key, mode |-> mode,
                     chord_name |-> chord_name,
                     result |-> MG_get_chord_notes(chord_name,
                                                   get_scale_notes(key, mode))]
    /\ pc' = "returned"
    /\ UNCHANGED <<rhythm, gen, part, score, rng, other, runs>>

CallGetChordProgression ==
    /\ pc = "theory"
    /\ \E key \in {<<"C">>, <<"E", "b">>}, mode \in Modes,
          length \in 0..MaxLength, choice \in 0..3 :
        /\ Draw(0..3, choice)
        /\ theory' = [fn |-> "get_chord_progression", key |-> key, mode |-> mode,
                      length |-> length, choice |-> choice,
                      result |-> get_chord_progression(key, mode, length, choice)]
    /\ pc' = "returned"
    /\ UNCHANGED <<rhythm, gen, part, score, other>>

InitTheory ==
    /\ pc = "theory"
    /\ theory = Idle
    /\ rhythm = Idle
    /\ gen = Idle
    /\ part = Idle
    /\ score = Idle
    /\ rng = Unseeded
    /\ other = Idle
    /\ runs = Idle

NextTheory ==
    \/ CallGetNoteIndex
    \/ CallGetScaleNotes
    \/ CallGetChordNotes
    \/ CallMGGetChordNotes
    \/ CallGetChordProgression

SpecTheory == InitTheory /\ [][NextTheory]_vars

InitRhythm ==
    /\ pc = "call_rhythm"
    /\ theory = Idle
    /\ rhythm = Idle
    /\ gen = Idle
    /\ part = Idle
    /\ score = Idle
    /\ rng = Unseeded
    /\ other = Idle
    /\ runs = Idle

NextRhythm ==
    \/ CallRhythmPattern
    \/ RhythmDraw
    \/ RhythmReturn

SpecRhythm == InitRhythm /\ [][NextRhythm]_vars

\* a caller asks for a melody part: _generate_melody_part, line 97
CallMelodyPart ==
    /\ pc = "call_part"
    /\ \E scale_notes \in Scales \cup {EmptyScale},
          chord_progression \in Progressions,
          total_measures \in 0..MaxMeasures, rhythm_variation \in Variations :
          \* the 145 patterns of the middle band are taken for one measure
          /\ QLt(Or(rhythm_variation, Q(1, 2)), Q(3, 10)) \/ total_measures <= 1
          /\ gen' = GenFrame("generate_melody", scale_notes, chord_progression,
                             total_measures, Or(rhythm_variation, Q(1, 2)))
    /\ part' = PartFrame("_generate_melody_part")
    /\ pc' = "extend"
    /\ UNCHANGED <<theory, rhythm, score, rng, other, runs>>

\* a caller asks for a bass part: _generate_bass_part, line 143
CallBassPart ==
    /\ pc = "call_part"
    /\ \E scale_notes \in Scales \cup {EmptyScale},
          chord_progression \in Progressions,
          total_measures \in 0..MaxMeasures :
          gen' = GenFrame("generate_bass_line", scale_notes, chord_progression,
                          total_measures, None)
    /\ part' = PartFrame("_generate_bass_part")
    /\ pc' = "extend"
    /\ UNCHANGED <<theory, rhythm, score, rng, other, runs>>

InitParts ==
    /\ pc = "call_part"
    /\ theory = Idle
    /\ rhythm = Idle
    /\ gen = Idle
    /\ part = Idle
    /\ score = Idle
    /\ rng = Unseeded
    /\ other = Idle
    /\ runs = Idle

NextParts ==
    \/ CallMelodyPart
    \/ CallBassPart
    \/ GenWhile
    \/ GenExtend
    \/ GenTruncate
    \/ MelodyMeasure
    \/ RhythmDraw
    \/ MelodyRescale
    \/ MelodyNote
    \/ MelodyEndMeasure
    \/ BassMeasure
    \/ GenReturn
    \/ PackEvent
    \/ PartFinish

SpecParts == InitParts /\ [][NextParts]_vars

----------------------------------------------------------------------------
(* models/music_model.py: MusicParameters *)

\* a clamp with no ceiling
clamp01_NoCeiling(x) == IF x = None THEN None ELSE QMax(Q(0, 1), x)

\* lines 66-72: max(0.0, min(1.0, x)) of a value that is not None
clamp01(x) == IF x = None THEN None ELSE QMax(Q(0, 1), QMin(Q(1, 1), x))

\* the dataclass with the fields as given
Request(tempo, key, mode, style, instruments, duration, chord_progression, chord_complexity, rhythm_variation) ==
    [tempo |-> tempo, key |-> key, mode |-> mode, style |-> style,
     instruments |-> instruments, duration |-> duration,
     chord_progression |-> chord_progression,
     chord_complexity |-> chord_complexity, rhythm_variation |-> rhythm_variation]

\* lines 42-72: __post_init__
MusicParameters(raw) ==
    [raw EXCEPT
        !.tempo = IF @ < 40 THEN 40 ELSE IF @ > 240 THEN 240 ELSE @,
        !.mode = lower(@),
        !.style = lower(@),
        !.duration = IF @ < 10 THEN 10 ELSE IF @ > 300 THEN 300 ELSE @,
        !.chord_complexity = clamp01(@),
        !.rhythm_variation = clamp01(@)]

\* tempos and durations below, at, between and above the limits
Tempos == {-5, 0, 39, 40, 41, 120, 239, 240, 241, 1000}
Seconds == {-1, 0, 9, 10, 11, 60, 299, 300, 301}
\* chord_complexity and rhythm_variation: unset, below 0, in [0, 1], above 1
Scalars == {None, Q(-1, 2), Q(0, 1), Q(1, 2), Q(1, 1), Q(3, 2)}

\* a MusicParameters is constructed: the dataclass __init__ and __post_init__
CallMusicParameters ==
    /\ pc = "construct"
    /\ \E tempo \in Tempos, duration \in Seconds,
          chord_complexity \in Scalars, rhythm_variation \in Scalars :
          LET raw == Request(tempo, <<"C">>, "major", "pop",
                             <<"Piano", "Bass", "Drums">>, duration, <<>>,
                             chord_complexity, rhythm_variation)
          IN  theory' = [fn |-> "MusicParameters", raw |-> raw,
                         result |-> MusicParameters(raw)]
    /\ pc' = "returned"
    /\ UNCHANGED <<rhythm, gen, part, score, rng, other, runs>>

InitParams ==
    /\ pc = "construct"
    /\ theory = Idle
    /\ rhythm = Idle
    /\ gen = Idle
    /\ part = Idle
    /\ score = Idle
    /\ rng = Unseeded
    /\ other = Idle
    /\ runs = Idle

NextParams == CallMusicParameters

SpecParams == InitParams /\ [][NextParams]_vars

----------------------------------------------------------------------------
(* music_generator.py: MusicGenerator.generate and _generate_part *)

\* int(x) of a float that is not negative
int(x) == x[1] \div x[2]

\* the measures counted a beat too many
total_measures_Ceiling(params) ==
    LET measures_per_minute == Q(params.tempo, 4)
    IN  int(QAdd(QMul(Q(params.duration, 60), measures_per_minute), Q(239, 240)))

\* lines 57-58
total_measures_of(params) ==
    LET measures_per_minute == Q(params.tempo, 4)
    IN  int(QMul(Q(params.duration, 60), measures_per_minute))

\* lines 441-456
bass_instruments ==
    {"Bass", "Bass Guitar", "Double Bass", "Synth Bass", "Electric Bass", "Contrabass"}
rhythm_instruments == {"Drums", "Percussion", "Drum Kit"}
chord_instruments == {"Piano", "Guitar", "Electric Guitar", "Synth", "Pad"}

is_bass_instrument(instrument_name) == instrument_name \in bass_instruments
is_rhythm_instrument(instrument_name) == instrument_name \in rhythm_instruments
is_chord_instrument(instrument_name) == instrument_name \in chord_instruments

\* lines 418-439: the music21 instrument class of a name, Piano by default
get_instrument_by_name(instrument_name) ==
    CASE instrument_name \in {"Piano", "Synth", "Synth Lead", "Pad"} -> "Piano"
      [] instrument_name = "Guitar" -> "Guitar"
      [] instrument_name = "Electric Guitar" -> "ElectricGuitar"
      [] instrument_name \in {"Bass", "Bass Guitar", "Synth Bass"} -> "ElectricBass"
      [] instrument_name = "Double Bass" -> "Contrabass"
      [] instrument_name = "Violin" -> "Violin"
      [] instrument_name = "Cello" -> "Violoncello"
      [] instrument_name = "Flute" -> "Flute"
      [] instrument_name = "Saxophone" -> "SopranoSaxophone"
      [] instrument_name = "Drums" -> "Percussion"
      [] OTHER -> "Piano"

\* lines 421-437: the keys of instrument_map
instrument_map_keys ==
    {"Piano", "Guitar", "Electric Guitar", "Bass", "Bass Guitar", "Double Bass",
     "Violin", "Cello", "Flute", "Saxophone", "Drums", "Synth", "Synth Lead",
     "Synth Bass", "Pad"}

\* a dispatch that would give the melody role to every name that is no key of
\* instrument_map
part_generator_ByTable(instrument_name) ==
    IF instrument_name \notin instrument_map_keys THEN "_generate_melody_part"
    ELSE IF is_bass_instrument(instrument_name) THEN "_generate_bass_part"
    ELSE IF is_rhythm_instrument(instrument_name) THEN "_generate_rhythm_part"
    ELSE IF is_chord_instrument(instrument_name) THEN "_generate_chord_part"
    ELSE "_generate_melody_part"

\* lines 82-90: the part generator an instrument name selects
part_generator(instrument_name) ==
    IF is_bass_instrument(instrument_name) THEN "_generate_bass_part"
    ELSE IF is_rhythm_instrument(instrument_name) THEN "_generate_rhythm_part"
    ELSE IF is_chord_instrument(instrument_name) THEN "_generate_chord_part"
    ELSE "_generate_melody_part"

\* lines 299-358: patterns.get(params.style, patterns["pop"]), as
\* (offset, pitch, duration) triples
drum_patterns(style) ==
    LET kick == <<"C", "2">>
        snare == <<"E", "2">>
        hat == <<"A", "2">>
        half == Q(1, 2)
        quarter == Q(1, 4)
        pop == << <<Q(0, 1), kick, half>>, <<Q(1, 1), snare, half>>,
                  <<Q(2, 1), kick, half>>, <<Q(3, 1), snare, half>>,
                  <<Q(0, 1), hat, quarter>>, <<Q(1, 2), hat, quarter>>,
                  <<Q(1, 1), hat, quarter>>, <<Q(3, 2), hat, quarter>>,
                  <<Q(2, 1), hat, quarter>>, <<Q(5, 2), hat, quarter>>,
                  <<Q(3, 1), hat, quarter>>, <<Q(7, 2), hat, quarter>> >>
    IN  CASE style = "rock" ->
               << <<Q(0, 1), kick, half>>, <<Q(1, 1), kick, half>>,
                  <<Q(2, 1), kick, half>>, <<Q(3, 1), kick, half>>,
                  <<Q(1, 1), snare, half>>, <<Q(3, 1), snare, half>>,
                  <<Q(1, 2), hat, half>>, <<Q(3, 2), hat, half>>,
                  <<Q(5, 2), hat, half>>, <<Q(7, 2), hat, half>> >>
          [] style = "jazz" ->
               << <<Q(0, 1), kick, half>>, <<Q(1, 1), snare, half>>,
                  <<Q(2, 1), kick, half>>, <<Q(3, 1), snare, half>>,
                  <<Q(0, 1), hat, quarter>>, <<Q(1, 2), hat, quarter>>,
                  <<Q(1, 1), hat, quarter>>, <<Q(7, 4), hat, quarter>>,
                  <<Q(2, 1), hat, quarter>>, <<Q(5, 2), hat, quarter>>,
                  <<Q(3, 1), hat, quarter>>, <<Q(7, 2), hat, quarter>> >>
          [] style = "electronic" ->
               << <<Q(0, 1), kick, half>>, <<Q(1, 1), kick, half>>,
                  <<Q(3, 2), snare, half>>, <<Q(2, 1), kick, half>>,
                  <<Q(7, 2), snare, half>>,
                  <<Q(0, 1), hat, quarter>>, <<Q(1, 2), hat, quarter>>,
                  <<Q(1, 1), hat, quarter>>, <<Q(3, 2), hat, quarter>>,
                  <<Q(2, 1), hat, quarter>>, <<Q(5, 2), hat, quarter>>,
                  <<Q(3, 1), hat, quarter>>, <<Q(7, 2), hat, quarter>> >>
          [] OTHER -> pop

\* lines 42-58: the frame of generate up to the loop over the instruments
ScoreFrame(params, chord_progression) ==
    [fn |-> "generate",
     params |-> [params EXCEPT !.chord_progression = chord_progression],
     scale_notes |-> get_scale_notes(params.key, params.mode),
     total_measures |-> total_measures_of(params),
     todo |-> params.instruments, parts |-> <<>>]

\* lines 182-194, 292-361: the frame of _generate_chord_part or
\* _generate_rhythm_part on its arguments
StyleFrameOf(fn, scale_notes, chord_progression, total_measures, params) ==
    GenFrame(fn, scale_notes, chord_progression, total_measures, None)
    @@ [complexity |-> Or(params.chord_complexity, Q(1, 2)),
        variation_frequency |-> Or(params.rhythm_variation, Q(3, 10)),
        add_variation |-> FALSE, current_offset |-> Q(0, 1)]

\* the frame of a part generator that is handed the chords and the measures
StyleFrame(fn) ==
    StyleFrameOf(fn, score.scale_notes, score.params.chord_progression,
                 score.total_measures, score.params)

\* lines 61-68 and 74-90: the next instrument; its part is made, given its
\* instrument, and the generator of its role is entered
GeneratePart ==
    /\ pc = "instruments"
    /\ score.todo # <<>>
    /\ LET instrument_name == Head(score.todo)
           fn == part_generator(instrument_name)
       IN  /\ part' = PartFrame(fn)
                      @@ [instrument |-> get_instrument_by_name(instrument_name)]
           /\ gen' = CASE fn = "_generate_bass_part" ->
                            GenFrame("generate_bass_line", score.scale_notes,
                                     score.params.chord_progression,
                                     score.total_measures, None)
                       [] fn = "_generate_melody_part" ->
                            GenFrame("generate_melody", score.scale_notes,
                                     score.params.chord_progression,
                                     score.total_measures,
                                     Or(score.params.rhythm_variation, Q(1, 2)))
                       [] OTHER -> StyleFrame(fn)
           /\ pc' = IF fn = "_generate_rhythm_part" THEN "measure" ELSE "extend"
    /\ UNCHANGED <<theory, rhythm, score, rng, other, runs>>

\* line 69: score.insert(0, part)
InsertPart ==
    /\ pc = "insert_part"
    /\ score' = [score EXCEPT
                    !.todo = Tail(@),
                    !.parts = Append(@, [instrument_name |-> Head(score.todo),
                                         instrument |-> part.instrument,
                                         fn |-> part.fn,
                                         measures |-> part.measures])]
    /\ gen' = Idle
    /\ part' = Idle
    /\ pc' = "instruments"
    /\ UNCHANGED <<theory, rhythm, rng, other, runs>>

\* lines 71-72: every instrument has its part
GenerateReturn ==
    /\ pc = "instruments"
    /\ score.todo = <<>>
    /\ pc' = "returned"
    /\ UNCHANGED <<theory, rhythm, gen, part, score, rng, other, runs>>

----------------------------------------------------------------------------
(* music_generator.py: _generate_chord_part and its three patterns *)

\* measure.append(c): c is put where the measure ends
measure_append(measure, c) == insert(measure, measure.highest, c)

\* measure.insert(offset, n) for each (offset, n) of a list, in order
RECURSIVE InsertAll(_, _)
InsertAll(measure, events) ==
    IF events = <<>> THEN measure
    ELSE InsertAll(insert(measure, events[1][1], events[1][2]), Tail(events))

\* note.Note(root).transpose(semitones).nameWithOctave, up to the spelling and
\* the octave: the name of NOTE_NAMES of the pitch class reached
Note_transpose(root, semitones) ==
    At(NOTE_NAMES, (get_note_index(root) + semitones) % 12)

\* every measure on the first chord of the progression
ChordOfMeasure_First == At(gen.chord_progression, 0)

\* lines 196-200: the measure and the chord of one iteration
ChordOfMeasure == At(gen.chord_progression, gen.measure_idx)
ChordNotesOfMeasure == MG_get_chord_notes(ChordOfMeasure, gen.scale_notes)

\* the same of the iteration just completed
ChordNotesOfMeasure_Done ==
    MG_get_chord_notes(At(gen.chord_progression, gen.measure_idx - 1), gen.scale_notes)

\* line 215 and the step of the loop: the measure built, with c the element
\* made last
ChordMeasureDone(measure, c) ==
    /\ part' = append([part EXCEPT !.measure = measure, !.n = c], measure)
    /\ gen' = [gen EXCEPT !.chord = ChordOfMeasure, !.measure_idx = @ + 1]
    /\ UNCHANGED <<pc, theory, rhythm, score, other>>

\* lines 219-226: eight notes, one up the chord every half beat
classical_arpeggio(chord_notes) ==
    [k \in 1..8 |->
        LET i == k - 1
        IN  <<Q(i, 2), Note(At(chord_notes, i % Len(chord_notes)), Q(1, 2),
                            75 + (i % 4) * 5)>>]

\* lines 196-204, 215, 217-239: one measure in the classical style.
\* inversion: chord_notes has more than 3 notes and random.random() < 0.5
ClassicalChordMeasure ==
    /\ pc = "measure"
    /\ gen.fn = "_generate_chord_part"
    /\ gen.measure_idx < gen.num_measures
    /\ score.params.style = "classical"
    /\ LET chord_notes == ChordNotesOfMeasure
           measure == Measure(gen.measure_idx + 1)
       IN  IF QLt(Q(7, 10), gen.complexity)
           THEN LET events == classical_arpeggio(chord_notes)
                IN  /\ ChordMeasureDone(InsertAll(measure, events),
                                        events[8][2] @@ [offset |-> events[8][1]])
                    /\ UNCHANGED <<rng, runs>>
           ELSE \E inversion \in BOOLEAN :
                   /\ inversion => Len(chord_notes) > 3
                   /\ IF Len(chord_notes) > 3 THEN Draw(BOOLEAN, inversion)
                      ELSE UNCHANGED <<rng, runs>>
                   /\ LET c1 == Chord(chord_notes, Q(2, 1), None)
                          c2 == Chord(IF inversion
                                      THEN Append(Tail(chord_notes), Head(chord_notes))
                                      ELSE chord_notes, Q(2, 1), None)
                      IN  ChordMeasureDone(
                              insert(measure_append(measure, c1), Q(2, 1), c2),
                              c2 @@ [offset |-> Q(2, 1)])

\* line 250: high says that random.random() > 0.5 is false
jazz_extension(root, high) == Note_transpose(root, IF high THEN 21 ELSE 18)

\* lines 244-253: the notes of the jazz chord
jazz_chord_notes(chord_notes, complexity, high) ==
    IF QLt(Q(6, 10), complexity) /\ Len(chord_notes) >= 3
    THEN LET root == At(chord_notes, 0)
             ninth == Note_transpose(root, 14)
         IN  IF QLt(Q(8, 10), complexity)
             THEN chord_notes \o <<ninth, jazz_extension(root, high)>>
             ELSE Append(chord_notes, ninth)
    ELSE chord_notes

\* lines 196-206, 215, 241-261: one measure in the jazz style.
\* on_beat: the random.random() of line 256 is above 0.5
JazzChordMeasure ==
    /\ pc = "measure"
    /\ gen.fn = "_generate_chord_part"
    /\ gen.measure_idx < gen.num_measures
    /\ score.params.style = "jazz"
    /\ \E high \in BOOLEAN, on_beat \in BOOLEAN :
          LET chord_notes == jazz_chord_notes(ChordNotesOfMeasure, gen.complexity, high)
              offsets == IF on_beat THEN <<Q(0, 1), Q(3, 2), Q(5, 2), Q(7, 2)>>
                         ELSE <<Q(1, 2), Q(3, 2), Q(2, 1), Q(3, 1)>>
              events == [k \in 1..4 |->
                            <<offsets[k],
                              Chord(chord_notes, Q(1, 2), 70 + ((k - 1) % 3) * 10)>>]
          IN  /\ high => QLt(Q(8, 10), gen.complexity)
              /\ Draw({d \in BOOLEAN \X BOOLEAN : d[1] => QLt(Q(8, 10), gen.complexity)},
                      <<high, on_beat>>)
              /\ ChordMeasureDone(InsertAll(Measure(gen.measure_idx + 1), events),
                                  events[4][2] @@ [offset |-> events[4][1]])

\* lines 196-208, 263-274: one measure in the pop or rock style, strummed
\* (complexity below 0.4) or up to the call of generate_rhythm_pattern
PopChordMeasure ==
    /\ pc = "measure"
    /\ gen.fn = "_generate_chord_part"
    /\ gen.measure_idx < gen.num_measures
    /\ score.params.style \in {"pop", "rock"}
    /\ LET chord_notes == ChordNotesOfMeasure
           measure == Measure(gen.measure_idx + 1)
       IN  IF QLt(gen.complexity, Q(4, 10))
           THEN LET events == [k \in 1..4 |->
                                  <<Q(k - 1, 1), Chord(chord_notes, Q(1, 1), None)>>]
                IN  /\ ChordMeasureDone(InsertAll(measure, events),
                                        events[4][2] @@ [offset |-> events[4][1]])
                    /\ UNCHANGED <<rng, runs>>
           ELSE /\ part' = [Forget(part) EXCEPT !.measure = measure]
                /\ gen' = [gen EXCEPT !.chord = ChordOfMeasure,
                                      !.chord_tones = chord_notes]
                /\ rhythm' = RhythmFrame(gen.complexity, "_add_pop_chord_pattern")
                /\ pc' = "generate_rhythm_pattern"
                /\ UNCHANGED <<theory, score, rng, other, runs>>

\* lines 274-275: generate_rhythm_pattern has returned its pattern
PopPatternReturn ==
    /\ pc = "generate_rhythm_pattern"
    /\ rhythm.caller = "_add_pop_chord_pattern"
    /\ ~rhythm_continues(rhythm.total_duration)
    /\ gen' = [gen EXCEPT !.rhythm_pattern = rhythm.pattern,
                          !.current_offset = Q(0, 1)]
    /\ rhythm' = Idle
    /\ pc' = "stabs"
    /\ UNCHANGED <<theory, part, score, rng, other, runs>>

\* lines 277-290: one iteration on the next duration of the pattern.
\* as_rest: random.random() < 0.2
PopStab ==
    /\ pc = "stabs"
    /\ gen.rhythm_pattern # <<>>
    /\ QLt(gen.current_offset, Q(4, 1))
    /\ \E as_rest \in BOOLEAN :
          LET duration == Head(gen.rhythm_pattern)
              c == IF as_rest THEN Rest(duration)
                   ELSE Chord(gen.chord_tones, duration, None)
          IN  /\ Draw(BOOLEAN, as_rest)
              /\ part' = [part EXCEPT
                          !.appended = Idle,
                          !.measure = insert(@, gen.current_offset, c),
                          !.n = c @@ [offset |-> gen.current_offset]]
    /\ gen' = [gen EXCEPT !.rhythm_pattern = Tail(@),
                          !.current_offset = QAdd(@, Head(gen.rhythm_pattern))]
    /\ UNCHANGED <<pc, theory, rhythm, score, other>>

\* lines 277-279 and 215: the pattern is exhausted, or the measure is full
PopPatternEnd ==
    /\ pc = "stabs"
    /\ gen.rhythm_pattern = <<>> \/ ~QLt(gen.current_offset, Q(4, 1))
    /\ part' = append(Forget(part), part.measure)
    /\ gen' = [gen EXCEPT !.measure_idx = @ + 1, !.rhythm_pattern = <<>>]
    /\ pc' = "measure"
    /\ UNCHANGED <<theory, rhythm, score, rng, other, runs>>

\* lines 196-215: one measure in any other style, one chord of the whole measure
DefaultChordMeasure ==
    /\ pc = "measure"
    /\ gen.fn = "_generate_chord_part"
    /\ gen.measure_idx < gen.num_measures
    /\ score.params.style \notin {"classical", "jazz", "pop", "rock"}
    /\ LET c == Chord(ChordNotesOfMeasure, Q(4, 1), None)
       IN  /\ ChordMeasureDone(measure_append(Measure(gen.measure_idx + 1), c),
                               c @@ [offset |-> Q(0, 1)])
           /\ UNCHANGED <<rng, runs>>

----------------------------------------------------------------------------
(* music_generator.py: _generate_rhythm_part *)

\* draws from an interval twice as wide below
uniform_Wide(lo, hi) == {QAdd(lo, lo), QMul(QAdd(lo, hi), Q(1, 2)), hi}

\* the draws the model takes of random.uniform(lo, hi): its ends and its middle
uniform(lo, hi) == {lo, QMul(QAdd(lo, hi), Q(1, 2)), hi}

\* lines 364-368: the head of one iteration of the measure loop.
\* random.random() is below 1, and can be below any frequency above 0
PercussionMeasure ==
    /\ pc = "measure"
    /\ gen.fn = "_generate_rhythm_part"
    /\ gen.measure_idx < gen.num_measures
    /\ \E add_variation \in BOOLEAN :
          /\ ~add_variation => QLt(gen.variation_frequency, Q(1, 1))
          /\ Draw({b \in BOOLEAN : ~b => QLt(gen.variation_frequency, Q(1, 1))},
                  add_variation)
          /\ gen' = [gen EXCEPT !.add_variation = add_variation,
                                !.rhythm_pattern = drum_patterns(score.params.style)]
    /\ part' = [Forget(part) EXCEPT !.measure = Measure(gen.measure_idx + 1)]
    /\ pc' = "drums"
    /\ UNCHANGED <<theory, rhythm, score, other>>

\* lines 370-385: one iteration on the next (offset, pitch, duration)
PercussionNote ==
    /\ pc = "drums"
    /\ gen.rhythm_pattern # <<>>
    /\ LET offset == Head(gen.rhythm_pattern)[1]
           pitch == Head(gen.rhythm_pattern)[2]
           duration == Head(gen.rhythm_pattern)[3]
           offset_vars == IF gen.add_variation THEN uniform(Q(-1, 20), Q(1, 20))
                          ELSE {Q(0, 1)}
           velocity_vars == IF gen.add_variation THEN randint(-10, 10) ELSE {0}
       IN  \E offset_var \in offset_vars, velocity_var \in velocity_vars :
              LET n == Note(pitch, duration, 90 + velocity_var)
                  adjusted_offset ==
                      QMax(Q(0, 1), QMin(Q(399, 100), QAdd(offset, offset_var)))
              IN  /\ IF gen.add_variation
                     THEN Draw(offset_vars \X velocity_vars,
                               <<offset_var, velocity_var>>)
                     ELSE UNCHANGED <<rng, runs>>
                  /\ part' = [part EXCEPT
                                 !.appended = Idle,
                                 !.measure = insert(@, adjusted_offset, n),
                                 !.n = n @@ [offset |-> adjusted_offset]]
    /\ gen' = [gen EXCEPT !.rhythm_pattern = Tail(@)]
    /\ UNCHANGED <<pc, theory, rhythm, score, other>>

\* line 387: the pattern is exhausted
PercussionEndMeasure ==
    /\ pc = "drums"
    /\ gen.rhythm_pattern = <<>>
    /\ part' = append(Forget(part), part.measure)
    /\ gen' = [gen EXCEPT !.measure_idx = @ + 1]
    /\ pc' = "measure"
    /\ UNCHANGED <<theory, rhythm, score, rng, other, runs>>

\* the loop over the measures of a chord or rhythm part is over
StylePartReturn ==
    /\ pc = "measure"
    /\ gen.fn \in {"_generate_chord_part", "_generate_rhythm_part"}
    /\ ~(gen.measure_idx < gen.num_measures)
    /\ part' = Forget(part)
    /\ pc' = IF score.fn = "generate" THEN "insert_part" ELSE "returned"
    /\ UNCHANGED <<theory, rhythm, gen, score, rng, other, runs>>

----------------------------------------------------------------------------
(* The generators called on their own, on any progression *)

\* the progressions handed over: none, and one of two chords
AnyProgressions == { <<>>, << <<"I">>, <<"V", "7">> >> }

\* the params handed to _generate_chord_part: a style with no pattern of its
\* own, and the defaults
PlainParams ==
    MusicParameters(Request(120, <<"C">>, "major", "ambient", <<"Pad">>, 10, <<>>,
                            None, None))

\* generate_rhythm_pattern(complexity), lines 340-379, with the durations of
\* its first and of its second band
CallRhythmAlone ==
    /\ pc = "call"
    /\ \E complexity \in {Q(0, 1), Q(3, 10)} :
          rhythm' = RhythmFrame(complexity, "direct")
    /\ pc' = "generate_rhythm_pattern"
    /\ UNCHANGED <<theory, gen, part, score, rng, other, runs>>

\* generate_melody(scale_notes, chord_progression, num_measures, 0.2) and
\* generate_bass_line(scale_notes, chord_progression, num_measures), from the
\* packing loops of lines 97 and 143
CallLineAlone ==
    /\ pc = "call"
    /\ \E fn \in {"generate_melody", "generate_bass_line"},
          chord_progression \in AnyProgressions,
          num_measures \in 0..MaxMeasures :
          \* the measures of a melody are left to the calls of the packing loop
          /\ fn = "generate_melody" => (chord_progression = <<>> \/ num_measures = 0)
          /\ gen' = GenFrame(fn, get_scale_notes(<<"C">>, "major"),
                             chord_progression, num_measures,
                             IF fn = "generate_melody" THEN Q(1, 5) ELSE None)
          /\ part' = PartFrame(IF fn = "generate_melody"
                               THEN "_generate_melody_part"
                               ELSE "_generate_bass_part")
    /\ pc' = "extend"
    /\ UNCHANGED <<theory, rhythm, score, rng, other, runs>>

\* _generate_chord_part(part, scale_notes, chord_progression, total_measures,
\* params), lines 182-215
CallChordPartAlone ==
    /\ pc = "call"
    /\ \E chord_progression \in AnyProgressions, total_measures \in 0..MaxMeasures :
          gen' = StyleFrameOf("_generate_chord_part",
                              get_scale_notes(<<"C">>, "major"),
                              chord_progression, total_measures, PlainParams)
    /\ part' = PartFrame("_generate_chord_part") @@ [instrument |-> "Piano"]
    /\ score' = [fn |-> "_generate_chord_part", params |-> PlainParams]
    /\ pc' = "extend"
    /\ UNCHANGED <<theory, rhythm, rng, other, runs>>

InitAlone ==
    /\ pc = "call"
    /\ theory = Idle
    /\ rhythm = Idle
    /\ gen = Idle
    /\ part = Idle
    /\ score = Idle
    /\ rng = Unseeded
    /\ other = Idle
    /\ runs = Idle

NextAlone ==
    \/ CallRhythmAlone
    \/ CallLineAlone
    \/ CallChordPartAlone
    \/ RhythmDraw
    \/ RhythmReturn
    \/ GenWhile
    \/ GenExtend
    \/ GenTruncate
    \/ BassMeasure
    \/ GenReturn
    \/ PackEvent
    \/ PartFinish
    \/ DefaultChordMeasure
    \/ StylePartReturn

\* a call that can take a step takes it: the interpreter runs the one thread
\* of the call until the call returns or raises
SpecAlone == InitAlone /\ [][NextAlone]_vars /\ WF_vars(NextAlone)

----------------------------------------------------------------------------
(* models/style_model.py: StyleModel; ai_composer.py: AIComposer *)

\* ai_composer.py lines 29-35: the catalog, in the order of its keys
style_names == <<"classical", "jazz", "pop", "rock", "electronic">>

\* ai_composer.py lines 29-35: chord_complexity and rhythm_variation of a style
style_models(style) ==
    CASE style = "classical" -> [chord_complexity |-> Q(8, 10), rhythm_variation |-> Q(6, 10)]
      [] style = "jazz" -> [chord_complexity |-> Q(9, 10), rhythm_variation |-> Q(9, 10)]
      [] style = "pop" -> [chord_complexity |-> Q(5, 10), rhythm_variation |-> Q(4, 10)]
      [] style = "rock" -> [chord_complexity |-> Q(6, 10), rhythm_variation |-> Q(7, 10)]
      [] style = "electronic" -> [chord_complexity |-> Q(4, 10), rhythm_variation |-> Q(8, 10)]

\* style_model.py lines 56-87: typical_progressions of a style of the catalog
typical_progressions(style) ==
    CASE style = "classical" ->
           << << <<"I">>, <<"I", "V">>, <<"V">>, <<"I">> >>,
              << <<"I">>, <<"V">>, <<"v", "i">>, <<"I", "V">> >>,
              << <<"I">>, <<"v", "i">>, <<"I", "V">>, <<"V">> >>,
              << <<"I">>, <<"I", "V">>, <<"I">>, <<"V">> >> >>
      [] style = "jazz" ->
           << << <<"i", "i", "7">>, <<"V", "7">>, <<"I", "m", "a", "j", "7">>,
                 <<"V", "I", "7">> >>,
              << <<"I", "m", "a", "j", "7">>, <<"V", "I", "7">>, <<"i", "i", "7">>,
                 <<"V", "7">> >>,
              << <<"i", "i", "i", "7">>, <<"V", "I", "7">>, <<"i", "i", "7">>,
                 <<"V", "7">> >>,
              << <<"I", "7">>, <<"I", "V", "7">>, <<"I", "7">>, <<"V", "7">> >> >>
      [] style = "pop" ->
           << << <<"I">>, <<"V">>, <<"v", "i">>, <<"I", "V">> >>,
              << <<"I">>, <<"I", "V">>, <<"V">>, <<"I", "V">> >>,
              << <<"v", "i">>, <<"I", "V">>, <<"I">>, <<"V">> >>,
              << <<"I">>, <<"V">>, <<"I", "V">>, <<"V">> >> >>
      [] style = "rock" ->
           << << <<"I">>, <<"I", "V">>, <<"V">>, <<"I", "V">> >>,
              << <<"I">>, <<"V">>, <<"I", "V">>, <<"I", "V">> >>,
              << <<"I">>, <<"I", "I", "I">>, <<"I", "V">>, <<"I", "V">> >>,
              << <<"I">>, <<"b", "V", "I", "I">>, <<"I", "V">>, <<"I">> >> >>
      [] style = "electronic" ->
           << << <<"I">>, <<"v", "i">>, <<"I", "V">>, <<"V">> >>,
              << <<"I">>, <<"V">>, <<"v", "i">>, <<"I", "V">> >>,
              << <<"v", "i">>, <<"I", "V">>, <<"I">>, <<"V">> >>,
              << <<"I">>, <<"I">>, <<"I", "V">>, <<"V">> >> >>

\* ai_composer.py lines 89-95
tempo_ranges(style) ==
    CASE style = "classical" -> <<60, 120>>
      [] style = "jazz" -> <<80, 140>>
      [] style = "pop" -> <<90, 130>>
      [] style = "rock" -> <<100, 160>>
      [] style = "electronic" -> <<110, 180>>

\* ai_composer.py line 100
suggested_keys ==
    << <<"C">>, <<"G">>, <<"D">>, <<"A">>, <<"E">>, <<"B">>, <<"F", "#">>,
       <<"C", "#">>, <<"F">>, <<"B", "b">>, <<"E", "b">>, <<"A", "b">>,
       <<"D", "b">>, <<"G", "b">>, <<"C", "b">> >>

\* ai_composer.py lines 126-132
instrument_sets(style) ==
    CASE style = "classical" -> <<"Piano", "Violin", "Cello", "Flute">>
      [] style = "jazz" -> <<"Piano", "Saxophone", "Double Bass", "Drums">>
      [] style = "pop" -> <<"Piano", "Guitar", "Bass", "Drums", "Synth">>
      [] style = "rock" -> <<"Electric Guitar", "Bass Guitar", "Drums", "Piano">>
      [] style = "electronic" -> <<"Synth Lead", "Synth Bass", "Drums", "Pad">>

\* what a draw from lo..hi yields on the variate u
PickInt(lo, hi, u) == lo + ((u * (hi - lo)) % (hi - lo + 1))

\* what a draw from the list seq yields on the variate u
PickOf(seq, u) == seq[PickInt(1, Len(seq), u)]

\* the variate np.random yields k places after the start of the stream of s
NpVariate(s, k) == rng.tape["np_random"][s][k % Period]

\* ai_composer.py lines 136-137: count instruments of the list, none twice;
\* of the orders np.random.choice can give, the model takes a run of the list
\* from its start or up to its end
np_choice_without_replacement(available, count, u) ==
    IF PickInt(0, 1, u) = 0 THEN SubSeq(available, 1, count)
    ELSE SubSeq(available, Len(available) - count + 1, Len(available))

\* ai_composer.py lines 81-119 with a seed that is not None: what is
\* suggested, with the typical progression at the index choice
suggested_parameters(s, choice) ==
    LET style == PickOf(style_names, NpVariate(s, 0))
        tempo_range == tempo_ranges(style)
        \* np.random.randint(low, high) is below high
        tempo == PickInt(tempo_range[1], tempo_range[2] - 1, NpVariate(s, 1))
        key == PickOf(suggested_keys, NpVariate(s, 2))
        is_major == PickInt(0, 1, NpVariate(s, 3)) = 0
        available_instruments == instrument_sets(style)
        count == PickInt(2, 4, NpVariate(s, 4))
        instruments == np_choice_without_replacement(available_instruments, count,
                                                     NpVariate(s, 5))
        duration == PickInt(30, 179, NpVariate(s, 6))
    IN  MusicParameters(
            Request(tempo, key, IF is_major THEN "major" ELSE "minor", style,
                    instruments, duration,
                    At(typical_progressions(style), choice), None, None))

\* ai_composer.py lines 71-122 and style_model.py lines 123-133: one call of
\* suggest_parameters(s).  np.random is seeded and drawn from seven times;
\* the progression is drawn by random.choice, from the source random
SuggestParameters ==
    /\ pc = "call_suggest"
    /\ Len(runs.calls) < 2
    /\ \E s \in Seeds, choice \in 0..3 :
          /\ \E after \in {[rng EXCEPT !.np_random = [seed(@, s) EXCEPT !.pos = 7 % Period]]} :
                IF ~rng.random.seeded
                THEN rng' = after
                ELSE /\ choice = Pick(0..3, Variate("random"))
                     /\ rng' = [after EXCEPT !.random.pos = (@ + 1) % Period]
          /\ runs' = [runs EXCEPT
                         !.calls = Append(@, [seed |-> s,
                                              result |-> suggested_parameters(s, choice)])]
    /\ UNCHANGED <<pc, theory, rhythm, gen, part, score, other>>

InitSuggest ==
    /\ pc = "call_suggest"
    /\ theory = Idle
    /\ rhythm = Idle
    /\ gen = Idle
    /\ part = Idle
    /\ score = Idle
    /\ \E tape \in Tapes : rng = [Unseeded EXCEPT !.tape.np_random = tape]
    /\ other = Idle
    /\ runs = [fn |-> "suggest_parameters", calls |-> <<>>]

NextSuggest == SuggestParameters

SpecSuggest == InitSuggest /\ [][NextSuggest]_vars

----------------------------------------------------------------------------
(* The compositions asked of MusicGenerator.generate *)

Cmajor == <<"C">>

Requests ==
    { \* the defaults of pop, for half a minute
      Request(120, Cmajor, "major", "pop", <<"Piano", "Bass", "Drums">>, 30,
              <<>>, None, None),
      \* no instrument
      Request(120, Cmajor, "major", "pop", <<>>, 30, <<>>, None, None),
      \* rock with the progression of its style table, strummed; tempo and
      \* duration below their floors
      Request(30, <<"A">>, "minor", "Rock", <<"Electric Guitar", "Drum Kit">>, 5,
              << <<"I">>, <<"b", "V", "I", "I">>, <<"I", "V">>, <<"I">> >>,
              Q(3, 10), Q(3, 2)),
      \* classical, arpeggiated, with a melody instrument
      Request(90, <<"G">>, "major", "classical", <<"Guitar", "Flute">>, 10,
              << <<"I">>, <<"V", "7">> >>, Q(4, 5), Q(1, 5)),
      \* classical, in block chords
      Request(60, <<"G">>, "major", "classical", <<"Pad">>, 10,
              << <<"I">>, <<"V", "7">> >>, Q(0, 1), None),
      \* a style with no pattern of its own, and an instrument of no role
      Request(60, <<"D">>, "minor", "ambient", <<"Synth", "Kazoo", "Synth Bass">>, 10,
              << <<"I", "X">>, <<"i", "v">> >>, None, Q(1, 5)) }
    \cup
    \* jazz at chord complexity 0.9 and 0.7
    { Request(60, key, mode, "Jazz", <<"Piano">>, 10, chord_progression,
              chord_complexity, None) :
        key \in {Cmajor, <<"E", "b">>}, mode \in Modes,
        chord_progression \in
            { <<>>,
              << <<"i", "i", "7">>, <<"V", "7">> >>,
              << <<"I", "m", "a", "j", "7">>, <<"V", "I", "7">> >>,
              << <<"v", "i", "i">>, <<"i", "i">> >> },
        chord_complexity \in {Q(9, 10), Q(7, 10)} }

\* lines 29-58: generate is entered; choice: the index random.choice draws in
\* get_chord_progression
GenerateWith(params) ==
    /\ IF params.chord_progression = <<>>
       THEN \E choice \in 0..3 :
               /\ Draw(0..3, choice)
               /\ score' = ScoreFrame(params,
                      get_chord_progression(params.key, params.mode, 4, choice))
       ELSE /\ score' = ScoreFrame(params, params.chord_progression)
            /\ UNCHANGED <<rng, runs>>
    /\ pc' = "instruments"
    /\ UNCHANGED <<theory, rhythm, gen, part, other>>

\* generate is called with parameters just constructed from raw
Generate(raw) ==
    /\ pc = "call_generate"
    /\ GenerateWith(MusicParameters(raw))

\* a caller asks for one of the compositions
CallGenerate == \E raw \in Requests : Generate(raw)

InitScore ==
    /\ pc = "call_generate"
    /\ theory = Idle
    /\ rhythm = Idle
    /\ gen = Idle
    /\ part = Idle
    /\ score = Idle
    /\ rng = Unseeded
    /\ other = Idle
    /\ runs = Idle

NextScore ==
    \/ CallGenerate
    \/ GeneratePart
    \/ GenWhile
    \/ GenExtend
    \/ GenTruncate
    \/ MelodyMeasure
    \/ RhythmDraw
    \/ MelodyRescale
    \/ MelodyNote
    \/ MelodyEndMeasure
    \/ BassMeasure
    \/ GenReturn
    \/ PackEvent
    \/ PartFinish
    \/ ClassicalChordMeasure
    \/ JazzChordMeasure
    \/ PopChordMeasure
    \/ PopPatternReturn
    \/ PopStab
    \/ PopPatternEnd
    \/ DefaultChordMeasure
    \/ PercussionMeasure
    \/ PercussionNote
    \/ PercussionEndMeasure
    \/ StylePartReturn
    \/ InsertPart
    \/ GenerateReturn

SpecScore == InitScore /\ [][NextScore]_vars

----------------------------------------------------------------------------
(* MusicGenerator.generate on one chord or percussion instrument *)

\* the styles asked for: the four with a chord pattern of their own (one
\* spelled with a capital), one with a drum template only, one unknown
CompingStyles == {"classical", "jazz", "pop", "Rock", "electronic", "ambient"}

\* chord_complexity: unset, 0.0, below, at and above the threshold 0.4 of the
\* pop pattern, and above the thresholds of the classical and jazz patterns
CompingComplexities == {None, Q(0, 1), Q(3, 10), Q(2, 5), Q(9, 10)}

CompingRequests ==
    \* three measures of a Piano on a progression of two chords or of one
    { Request(72, Cmajor, "major", style, <<"Piano">>, 10, chord_progression,
              chord_complexity, None) :
        style \in CompingStyles,
        chord_progression \in { << <<"I">>, <<"V", "7">> >>, << <<"v", "i">> >> },
        chord_complexity \in CompingComplexities }
    \cup
    \* two measures of Drums
    { Request(48, Cmajor, "major", style, <<"Drums">>, 10, << <<"I">> >>, None,
              rhythm_variation) :
        style \in CompingStyles \ {"classical"},
        rhythm_variation \in {None, Q(1, 1)} }

CallGenerateComping ==
    \E raw \in CompingRequests :
        \* the quarter-beat patterns of complexity 0.9 are left to the styles
        \* that take no rhythm pattern
        /\ lower(raw.style) \in {"pop", "rock"} => raw.chord_complexity # Q(9, 10)
        /\ Generate(raw)

NextComping ==
    \/ CallGenerateComping
    \/ GeneratePart
    \/ GenWhile
    \/ GenExtend
    \/ GenTruncate
    \/ RhythmDraw
    \/ ClassicalChordMeasure
    \/ JazzChordMeasure
    \/ PopChordMeasure
    \/ PopPatternReturn
    \/ PopStab
    \/ PopPatternEnd
    \/ DefaultChordMeasure
    \/ PercussionMeasure
    \/ PercussionNote
    \/ PercussionEndMeasure
    \/ StylePartReturn
    \/ InsertPart
    \/ GenerateReturn

SpecComping == InitScore /\ [][NextComping]_vars

----------------------------------------------------------------------------
(* ai_composer.py: AIComposer.compose *)

\* a style model that would put its progression in place of the caller's
apply_style_model_Replaces(parameters, choice) ==
    [parameters EXCEPT
        !.chord_complexity = style_models(parameters.style).chord_complexity,
        !.rhythm_variation = style_models(parameters.style).rhythm_variation,
        !.chord_progression = At(typical_progressions(parameters.style), choice)]

\* lines 61-69: _apply_style_model; choice: the index random.choice draws in
\* get_typical_progression
apply_style_model(parameters, choice) ==
    [parameters EXCEPT
        !.chord_complexity = style_models(parameters.style).chord_complexity,
        !.rhythm_variation = style_models(parameters.style).rhythm_variation,
        !.chord_progression =
            IF @ = <<>> THEN At(typical_progressions(parameters.style), choice)
            ELSE @]

\* compositions of one bass measure: styles in the catalog (one spelled with
\* a capital) and one outside it, with and without a progression
ComposeRequests ==
    { Request(40, Cmajor, mode, style, <<"Bass">>, 10, chord_progression,
              chord_complexity, None) :
        mode \in Modes, style \in {"pop", "Jazz", "rock", "ambient"},
        chord_progression \in {<<>>, << <<"i", "i">>, <<"V", "7">> >>},
        chord_complexity \in {None, Q(3, 2)} }

\* lines 39-53: compose is called on parameters just constructed, and applies
\* the style model if the style has one
ComposeApplyStyle ==
    /\ pc = "call_compose"
    /\ \E raw \in ComposeRequests :
          LET parameters == MusicParameters(raw)
          IN  /\ runs' = [fn |-> "compose", given |-> parameters]
              /\ IF Contains(style_names, parameters.style)
                 THEN IF parameters.chord_progression = <<>>
                      THEN \E choice \in 0..3 :
                              /\ Yields("random", 0..3, choice)
                              /\ score' = [fn |-> "compose",
                                           parameters |->
                                               apply_style_model(parameters, choice)]
                      ELSE /\ score' = [fn |-> "compose",
                                        parameters |-> apply_style_model(parameters, 0)]
                           /\ UNCHANGED rng
                 ELSE /\ score' = [fn |-> "compose", parameters |-> parameters]
                      /\ UNCHANGED rng
    /\ pc' = "compose_generate"
    /\ UNCHANGED <<theory, rhythm, gen, part, other>>

\* line 56: self.music_generator.generate(parameters)
ComposeGenerate ==
    /\ pc = "compose_generate"
    /\ GenerateWith(score.parameters)

InitCompose ==
    /\ pc = "call_compose"
    /\ theory = Idle
    /\ rhythm = Idle
    /\ gen = Idle
    /\ part = Idle
    /\ score = Idle
    /\ rng = Unseeded
    /\ other = Idle
    /\ runs = Idle

NextCompose ==
    \/ ComposeApplyStyle
    \/ ComposeGenerate
    \/ GeneratePart
    \/ GenWhile
    \/ GenExtend
    \/ GenTruncate
    \/ BassMeasure
    \/ GenReturn
    \/ PackEvent
    \/ PartFinish
    \/ InsertPart
    \/ GenerateReturn

SpecCompose == InitCompose /\ [][NextCompose]_vars

----------------------------------------------------------------------------
(* Two runs of one composition, each after random.seed of the same seed. *)

\* compositions of one measure a part that between them use every generator
SeededRequests ==
    { Request(40, Cmajor, "major", "pop", <<"Piano", "Bass", "Drums", "Flute">>, 10,
              <<>>, Q(1, 2), Q(1, 5)),
      Request(40, <<"G">>, "major", "classical", <<"Pad", "Drums">>, 10,
              << <<"V", "7">> >>, Q(0, 1), Q(1, 1)),
      Request(40, <<"E", "b">>, "minor", "jazz", <<"Piano", "Double Bass">>, 10,
              << <<"i", "i", "7">> >>, Q(9, 10), None),
      Request(40, <<"D">>, "minor", "ambient", <<"Synth", "Kazoo">>, 10,
              << <<"i", "v">> >>, None, Q(1, 5)) }

\* the observer's notes as a first run starts
FirstRun(s, input) ==
    [fn |-> "runs", run |-> 1, seed |-> s, input |-> input,
     seen |-> <<>>, at |-> 0, same |-> TRUE, final |-> Idle]

\* the caller seeds random before the first run
SeedFirstRun ==
    /\ pc = "seed"
    /\ \E s \in Seeds, raw \in SeededRequests :
          /\ rng' = [rng EXCEPT !.random = seed(@, s)]
          /\ runs' = FirstRun(s, raw)
    /\ pc' = "call_generate"
    /\ UNCHANGED <<theory, rhythm, gen, part, score, other>>

\* generate is called on the composition of the run
CallGenerateSeeded ==
    /\ runs # Idle
    /\ Generate(runs.input)

\* the first run is over: the caller seeds random with the same seed, for a
\* second run on the same composition
SeedSecondRun ==
    /\ pc \in {"returned", "raised"}
    /\ runs.run = 1
    /\ rng' = [rng EXCEPT !.random = seed(@, runs.seed)]
    /\ runs' = [runs EXCEPT !.run = 2, !.final = View]
    /\ pc' = "call_generate"
    /\ rhythm' = Idle
    /\ gen' = Idle
    /\ part' = Idle
    /\ score' = Idle
    /\ UNCHANGED <<theory, other>>

InitSeeded ==
    /\ pc = "seed"
    /\ theory = Idle
    /\ rhythm = Idle
    /\ gen = Idle
    /\ part = Idle
    /\ score = Idle
    /\ \E tape \in Tapes : rng = [Unseeded EXCEPT !.tape.random = tape]
    /\ other = Idle
    /\ runs = Idle

NextSeeded ==
    \/ SeedFirstRun
    \/ CallGenerateSeeded
    \/ SeedSecondRun
    \/ GeneratePart
    \/ GenWhile
    \/ GenExtend
    \/ GenTruncate
    \/ MelodyMeasure
    \/ RhythmDraw
    \/ MelodyRescale
    \/ MelodyNote
    \/ MelodyEndMeasure
    \/ BassMeasure
    \/ GenReturn
    \/ PackEvent
    \/ PartFinish
    \/ ClassicalChordMeasure
    \/ JazzChordMeasure
    \/ PopChordMeasure
    \/ PopPatternReturn
    \/ PopStab
    \/ PopPatternEnd
    \/ DefaultChordMeasure
    \/ PercussionMeasure
    \/ PercussionNote
    \/ PercussionEndMeasure
    \/ StylePartReturn
    \/ InsertPart
    \/ GenerateReturn

SpecSeeded == InitSeeded /\ [][NextSeeded]_vars

----------------------------------------------------------------------------
(* A composition on one thread while a second thread, at work on another    *)
(* composition, runs generate_rhythm_pattern.  The functions of random act  *)
(* on the one instance of the process, with no lock of the program around   *)
(* them and no instance of a thread's own: the calls of the two threads     *)
(* come in any order.  The first run is alone, the second is not.           *)

\* a bass part of two measures
ConcurrentRequests ==
    { Request(48, Cmajor, "major", "pop", <<"Bass">>, 10,
              << <<"I">>, <<"V">> >>, None, None) }

\* the caller seeds random before the first run
SeedAlone ==
    /\ pc = "seed"
    /\ \E s \in Seeds, raw \in ConcurrentRequests :
          /\ rng' = [rng EXCEPT !.random = seed(@, s)]
          /\ runs' = FirstRun(s, raw)
    /\ pc' = "call_generate"
    /\ UNCHANGED <<theory, rhythm, gen, part, score, other>>

\* music_theory.py line 252, on the second thread, once random is seeded for
\* the second run
OtherCallRhythmPattern ==
    /\ runs # Idle
    /\ runs.run = 2
    /\ other = Idle
    /\ \E complexity \in {Q(1, 5), Q(1, 2)} :
          other' = RhythmFrame(complexity, "other thread")
    /\ UNCHANGED <<pc, theory, rhythm, gen, part, score, rng, runs>>

\* lines 371-377, on the second thread
OtherRhythmDraw ==
    /\ other # Idle
    /\ ~other.returned
    /\ rhythm_continues(other.total_duration)
    /\ LET pool == available_durations(other.complexity)
       IN  \E k \in 0..(Len(pool) - 1) :
              LET duration == At(pool, k)
              IN  /\ Yields("random", 0..(Len(pool) - 1), k)
                  /\ other' = [other EXCEPT
                         !.pattern = Append(@, duration),
                         !.total_duration = QAdd(@, duration)]
    /\ UNCHANGED <<pc, theory, rhythm, gen, part, score, runs>>

\* line 379, on the second thread
OtherRhythmReturn ==
    /\ other # Idle
    /\ ~other.returned
    /\ ~rhythm_continues(other.total_duration)
    /\ other' = [other EXCEPT !.returned = TRUE]
    /\ UNCHANGED <<pc, theory, rhythm, gen, part, score, rng, runs>>

NextConcurrent ==
    \/ SeedAlone
    \/ CallGenerateSeeded
    \/ SeedSecondRun
    \/ GeneratePart
    \/ GenWhile
    \/ GenExtend
    \/ GenTruncate
    \/ BassMeasure
    \/ GenReturn
    \/ PackEvent
    \/ PartFinish
    \/ InsertPart
    \/ GenerateReturn
    \/ OtherCallRhythmPattern
    \/ OtherRhythmDraw
    \/ OtherRhythmReturn

SpecConcurrent == InitSeeded /\ [][NextConcurrent]_vars

----------------------------------------------------------------------------
(* Claims about the pure functions *)

\* the set of pitch classes of a list of note names
PitchClasses(notes) == {get_note_index(notes[k]) : k \in 1..Len(notes)}

\* C1: for every root A-G with optional '#'/'b' and both modes, get_scale_notes
\* returns 7 notes of pairwise distinct pitch classes, and in major the first
\* note is the sharp spelling NOTE_NAMES[get_note_index(root)] of the root.
C1_ScaleSevenDistinct ==
    (theory.fn = "get_scale_notes" /\ theory.key \in Keys) =>
        /\ Len(theory.result) = 7
        /\ Cardinality(PitchClasses(theory.result)) = 7
        /\ theory.mode = "major" =>
              theory.result[1] = At(NOTE_NAMES, get_note_index(theory.key))

C1_Witness ==
    /\ theory.fn = "get_scale_notes"
    /\ theory.key = <<"C", "b">>
    /\ theory.mode = "major"
    /\ theory.result[1] = <<"B">>

\* the triad <<scale[d], scale[d+2], scale[d+4]>> of degree d
DegreeTriad(scale_notes, d) ==
    <<At(scale_notes, d), At(scale_notes, (d + 2) % 7), At(scale_notes, (d + 4) % 7)>>

\* C2: for every key, both modes and every numeral I..VII in either case,
\* get_chord_notes returns the 3 notes of scale degrees d, d+2, d+4 (mod 7), of
\* pairwise distinct pitch classes, for the bare numeral, and 4 notes, adding
\* degree d+6 (mod 7), for the numeral followed by '7'.
C2_TriadAndSeventh ==
    (theory.fn = "get_chord_notes" /\ theory.key \in Keys) =>
        LET scale_notes == get_scale_notes(theory.key, theory.mode)
        IN  \A b \in RomanKeys :
              LET d == ROMAN_TO_SCALE_DEGREE(b)
              IN  /\ theory.roman_numeral = b =>
                        /\ theory.result = DegreeTriad(scale_notes, d)
                        /\ Cardinality(PitchClasses(theory.result)) = 3
                  /\ theory.roman_numeral = b \o <<"7">> =>
                        /\ theory.result =
                              Append(DegreeTriad(scale_notes, d),
                                     At(scale_notes, (d + 6) % 7))
                        /\ Cardinality(PitchClasses(theory.result)) = 4

C2_Witness ==
    /\ theory.fn = "get_chord_notes"
    /\ theory.key = <<"F", "#">>
    /\ theory.mode = "minor"
    /\ theory.roman_numeral = <<"v", "i", "i", "7">>
    /\ Len(theory.result) = 4

\* the canned progressions of a mode, as a set
Canned(mode) ==
    IF mode = "major"
    THEN {major_progressions[k] : k \in 1..Len(major_progressions)}
    ELSE {minor_progressions[k] : k \in 1..Len(minor_progressions)}

\* C3: for either mode and every N >= 1, get_chord_progression returns N symbols,
\* the one at index i being element i mod 4 of one canned progression of the mode.
C3_ProgressionLength ==
    (theory.fn = "get_chord_progression" /\ theory.length >= 1) =>
        /\ Len(theory.result) = theory.length
        /\ \E canned \in Canned(theory.mode) :
              /\ Len(canned) = 4
              /\ \A i \in 0..(theory.length - 1) :
                    At(theory.result, i) = At(canned, i % 4)

C3_Witness ==
    /\ theory.fn = "get_chord_progression"
    /\ theory.length = 7
    /\ theory.mode = "minor"
    /\ theory.result[7] = <<"I", "I", "I">>

\* the symbol carries a marker get_chord_notes reads: '7', 'dim', the degree
\* sign, 'aug' or '+'
HasModifier(roman_numeral) ==
    \/ Contains(roman_numeral, "7")
    \/ HasSubstring(roman_numeral, <<"d", "i", "m">>)
    \/ Contains(roman_numeral, degree_sign)
    \/ HasSubstring(roman_numeral, <<"a", "u", "g">>)
    \/ Contains(roman_numeral, "+")

UnknownNumeral(roman_numeral) == SelectSeq(roman_numeral, isalpha) \notin RomanKeys

\* C10 as stated: for a numeral whose base is no key I..VII, get_chord_notes
\* returns the tonic triad (scale degrees 0, 2, 4).
C10_Original ==
    (theory.fn = "get_chord_notes" /\ theory.key \in Keys
      /\ UnknownNumeral(theory.roman_numeral)) =>
        theory.result = DegreeTriad(get_scale_notes(theory.key, theory.mode), 0)

\* C10 as amended: for a numeral whose letters are no key I..VII the chord is
\* built on scale degree 0 (root scale[0], third scale[2]); it is the tonic triad
\* scale[0], scale[2], scale[4] when the symbol carries none of '7', 'dim', the
\* degree sign, 'aug', '+'; a '7' in the symbol still adds scale[6].
C10_FallbackTonic ==
    (theory.fn = "get_chord_notes" /\ theory.key \in Keys
      /\ UnknownNumeral(theory.roman_numeral)) =>
        LET scale_notes == get_scale_notes(theory.key, theory.mode)
        IN  /\ theory.result[1] = At(scale_notes, 0)
            /\ theory.result[2] = At(scale_notes, 2)
            /\ ~HasModifier(theory.roman_numeral) =>
                  theory.result = DegreeTriad(scale_notes, 0)
            /\ Contains(theory.roman_numeral, "7") =>
                  /\ Len(theory.result) = 4
                  /\ theory.result[4] = At(scale_notes, 6)

C10_Witness ==
    /\ theory.fn = "get_chord_notes"
    /\ theory.roman_numeral = <<"I", "X">>
    /\ theory.key = <<"A">>
    /\ theory.mode = "minor"
    /\ theory.result = << <<"A">>, <<"C">>, <<"E">> >>

\* the values of a list, as a set
Range(s) == {s[k] : k \in 1..Len(s)}

\* the durations of the complexity band, as the claim lists them
BandPool(complexity) ==
    IF QLt(complexity, Q(3, 10)) THEN {Q(2, 1), Q(1, 1)}
    ELSE IF QLt(complexity, Q(6, 10)) THEN {Q(2, 1), Q(1, 1), Q(1, 2)}
    ELSE {Q(1, 1), Q(1, 2), Q(1, 4)}

\* C4: for every complexity in [0,1] and every sequence of draws, the pattern
\* generate_rhythm_pattern returns is non-empty, its durations are of the pool of
\* the complexity band, it sums to at least 4 beats and, without its last
\* element, to less than 4 beats.
C4_RhythmPatternSum ==
    (pc = "returned" /\ rhythm.fn = "generate_rhythm_pattern") =>
        /\ rhythm.pattern # <<>>
        /\ Range(rhythm.pattern) \subseteq BandPool(rhythm.complexity)
        /\ QLe(Q(4, 1), QSum(rhythm.pattern))
        /\ QLt(QSum(SubSeq(rhythm.pattern, 1, Len(rhythm.pattern) - 1)), Q(4, 1))

C4_Witness ==
    /\ pc = "returned"
    /\ rhythm.fn = "generate_rhythm_pattern"
    /\ rhythm.complexity = Q(6, 10)
    /\ QSum(rhythm.pattern) = Q(19, 4)
    /\ Len(rhythm.pattern) = 16

----------------------------------------------------------------------------
(* Claims about the melody and bass parts *)

\* the progression holds a symbol that is none of I..VII in either case
HasUnknownSymbol(chord_progression) ==
    \E k \in 1..Len(chord_progression) : chord_progression[k] \notin RomanKeys

C7_BassMeasureStartsAtZero ==
    (part.fn = "_generate_bass_part" /\ part.appended # Idle) =>
        /\ part.appended.count > 0
        /\ part.appended.first = Q(0, 1)

\* the second measure of a bass part, of the pattern with two rests
C7_Witness ==
    /\ part.fn = "_generate_bass_part"
    /\ part.appended # Idle
    /\ part.appended.number = 2
    /\ part.appended.count = 5
    /\ part.appended.first = Q(0, 1)

\* C9: generate_melody and generate_bass_line, on a scale of 7 notes, never raise
\* on a progression that holds a symbol that is none of I..VII.
C9_NeverRaises ==
    (gen.fn \in {"generate_melody", "generate_bass_line"}
      /\ Len(gen.scale_notes) = 7
      /\ HasUnknownSymbol(gen.progression)) => pc # "raised"

\* C11: on degenerate input, num_measures = 0 or an empty scale, generate_melody
\* and generate_bass_line raise nothing and return the empty list.
C11_DegenerateReturnsEmpty ==
    (gen.fn \in {"generate_melody", "generate_bass_line"}
      /\ (gen.num_measures = 0 \/ gen.scale_notes = EmptyScale)) =>
        /\ pc # "raised"
        /\ gen.out = <<>>
        /\ gen.total = Q(0, 1)

----------------------------------------------------------------------------
(* Claims about MusicGenerator.generate *)

\* the request of pop at tempo 120 for 30 seconds with Piano, Bass and Drums
PopHalfMinute ==
    /\ score.params.tempo = 120
    /\ score.params.duration = 30
    /\ score.params.style = "pop"
    /\ score.params.instruments = <<"Piano", "Bass", "Drums">>

C8_JazzFivePitchClasses ==
    (part.fn = "_generate_chord_part" /\ part.appended # Idle
      /\ score.params.style = "jazz"
      /\ score.params.chord_complexity = Q(9, 10)) =>
        Cardinality(PitchClasses(part.n.pitches)) >= 5

----------------------------------------------------------------------------
(* Claims about degenerate and malformed input of the pure functions *)

\* the pitch class of a letter, C = 0
LetterIndex(letter) ==
    CASE letter = "C" -> 0 [] letter = "D" -> 2 [] letter = "E" -> 4
      [] letter = "F" -> 5 [] letter = "G" -> 7 [] letter = "A" -> 9
      [] letter = "B" -> 11

\* C12: for a name of a letter A-G with an optional '#' or 'b', get_note_index
\* returns the letter's pitch class, plus 1 for '#' and minus 1 for 'b', modulo
\* 12 (so within 0..11, a flat agreeing with its enharmonic sharp); for a name
\* whose letter is none of A-G, get_note_index raises, and so do get_scale_notes
\* and get_chord_notes called with it as the key: no default is substituted.
C12_NoteIndexOrError ==
    /\ (theory.fn = "get_note_index" /\ theory.key \in Keys) =>
          LET accidental == IF Len(theory.key) = 1 THEN 0
                            ELSE IF theory.key[2] = "#" THEN 1 ELSE -1
          IN  /\ pc = "returned"
              /\ theory.result \in 0..11
              /\ theory.result = (LetterIndex(theory.key[1]) + accidental + 12) % 12
    /\ (theory.fn \in {"get_note_index", "get_scale_notes", "get_chord_notes"}
          /\ theory.key \in BadKeys) =>
          /\ pc = "raised"
          /\ theory.result = None

\* get_chord_notes raises on the key H#
C12_Witness ==
    /\ theory.fn = "get_chord_notes"
    /\ theory.key = <<"H", "#">>
    /\ pc = "raised"

----------------------------------------------------------------------------
(* Claims about the random source *)

\* C13: a second run of a generator on the same inputs, after random was
\* seeded with the same seed as before the first, is at every draw in the
\* state the first run was in at that draw, makes as many draws, and ends in
\* the state the first run ended in: the same events, in the same measures.
C13_SeededRunsAgree ==
    (runs # Idle /\ runs.run = 2) =>
        /\ runs.same
        /\ pc \in {"returned", "raised"} =>
              /\ runs.at = Len(runs.seen)
              /\ View = runs.final

\* the second run of the pop composition has returned its four parts, after
\* more than ten draws
C13_Witness ==
    /\ runs # Idle
    /\ runs.run = 2
    /\ pc = "returned"
    /\ Len(score.parts) = 4
    /\ runs.at > 10

\* C14: a composition that runs while a second thread draws from random
\* makes the draws, and is at each of them in the state, of its run alone
\* after the same seed, and ends in the state that run ended in.
C14_ConcurrentRunAgrees ==
    (runs # Idle /\ runs.run = 2 /\ other # Idle) =>
        /\ runs.same
        /\ pc = "returned" => View = runs.final

\* C15: two calls of suggest_parameters with the same seed return equal
\* MusicParameters, the chord progression included.
C15_SuggestReproducible ==
    \A i \in 1..Len(runs.calls), j \in 1..Len(runs.calls) :
        runs.calls[i].seed = runs.calls[j].seed =>
            runs.calls[i].result = runs.calls[j].result

\* what np.random draws is the same in the two calls
SuggestedButProgression(params) == [params EXCEPT !.chord_progression = <<>>]
NpFieldsReproducible ==
    \A i \in 1..Len(runs.calls), j \in 1..Len(runs.calls) :
        runs.calls[i].seed = runs.calls[j].seed =>
            SuggestedButProgression(runs.calls[i].result)
                = SuggestedButProgression(runs.calls[j].result)

----------------------------------------------------------------------------
(* Claims about MusicParameters and AIComposer *)

InUnit(x) == x = None \/ (QLe(Q(0, 1), x) /\ QLe(x, Q(1, 1)))

\* C16: a MusicParameters just constructed has its tempo in 40..240, its
\* duration in 10..300, chord_complexity and rhythm_variation unset or in
\* [0, 1]; a value that was in its range, or unset, is the value given.
C16_ParametersClamped ==
    theory.fn = "MusicParameters" =>
        LET raw == theory.raw
            params == theory.result
        IN  /\ params.tempo \in 40..240
            /\ params.duration \in 10..300
            /\ InUnit(params.chord_complexity)
            /\ InUnit(params.rhythm_variation)
            /\ raw.tempo \in 40..240 => params.tempo = raw.tempo
            /\ raw.duration \in 10..300 => params.duration = raw.duration
            /\ InUnit(raw.chord_complexity) =>
                  params.chord_complexity = raw.chord_complexity
            /\ InUnit(raw.rhythm_variation) =>
                  params.rhythm_variation = raw.rhythm_variation

\* tempo 1000, duration 9, chord_complexity 1.5 and rhythm_variation unset
\* became 240, 10, 1.0 and unset
C16_Witness ==
    /\ theory.fn = "MusicParameters"
    /\ theory.raw.tempo = 1000
    /\ theory.raw.duration = 9
    /\ theory.raw.chord_complexity = Q(3, 2)
    /\ theory.raw.rhythm_variation = None
    /\ theory.result.tempo = 240
    /\ theory.result.duration = 10
    /\ theory.result.chord_complexity = Q(1, 1)
    /\ theory.result.rhythm_variation = None

\* the typical progressions of a style of the catalog, as a set
Typical(style) ==
    {typical_progressions(style)[k] : k \in 1..Len(typical_progressions(style))}

\* C17: the progression generate works on, and hands to the generators, is
\* the caller's if the caller gave one; else a typical progression of the
\* style if compose knows the style; else a canned progression of the mode;
\* and it is never empty.
C17_ProgressionPrecedence ==
    (runs.fn = "compose" /\ score.fn = "generate") =>
        LET given == runs.given
            used == score.params.chord_progression
        IN  /\ given.chord_progression # <<>> => used = given.chord_progression
            /\ (given.chord_progression = <<>>
                  /\ Contains(style_names, given.style)) =>
                  used \in Typical(given.style)
            /\ (given.chord_progression = <<>>
                  /\ ~Contains(style_names, given.style)) =>
                  used \in Canned(given.mode)
            /\ used # <<>>
            /\ gen # Idle => gen.progression = used

\* a jazz composition asked without a progression has its bass part, on the
\* third typical progression of jazz
C17_Witness ==
    /\ runs.fn = "compose"
    /\ runs.given.style = "jazz"
    /\ runs.given.chord_progression = <<>>
    /\ score.fn = "generate"
    /\ score.params.chord_progression = typical_progressions("jazz")[3]
    /\ pc = "returned"
    /\ Len(score.parts) = 1

----------------------------------------------------------------------------
(* Claims about the chord of a measure in generate_melody and              *)
(* generate_bass_line                                                       *)

\* C18: in generate_melody, on a scale of 7 notes, the chord tones of a
\* measure whose chord is a numeral I..VII, in either case, of degree d are
\* the notes of the scale at d, d+2 and d+4 (mod 7).
C18_MelodyChordTones ==
    (gen.fn = "generate_melody" /\ Len(gen.scale_notes) = 7
      /\ gen.chord \in RomanKeys) =>
        gen.chord_tones = DegreeTriad(gen.scale_notes, ROMAN_TO_SCALE_DEGREE(gen.chord))

\* C19: in generate_bass_line, on a scale of 7 notes, the pattern of a measure
\* whose chord is a numeral I..VII, in either case, with or without a
\* modifier, begins on the note of the scale at the degree of the numeral,
\* and each of the 5 patterns on that root lasts 4 beats.
C19_BassRoot ==
    (gen.fn = "generate_bass_line" /\ Len(gen.scale_notes) = 7
      /\ pc = "pack" /\ part.n = Idle) =>
        \A numeral \in RomanKeys, modifier \in Modifiers :
            gen.chord = numeral \o modifier =>
                LET d == ROMAN_TO_SCALE_DEGREE(numeral)
                IN  /\ Head(gen.out)[1] = At(gen.scale_notes, d)
                    /\ \A k \in 0..4 :
                          QSum(Durations(At(bass_patterns(gen.scale_notes, d), k)))
                              = Q(4, 1)

\* what holds of the bass line: the patterns last 4 beats, on the root the
\* code takes
BassPatternsFourBeats ==
    (gen.fn = "generate_bass_line" /\ Len(gen.scale_notes) = 7
      /\ pc = "pack" /\ part.n = Idle) =>
        /\ QSum(Durations(gen.out)) = Q(4, 1)
        /\ Head(gen.out)[1] = At(gen.scale_notes, root_degree_of(gen.chord))

----------------------------------------------------------------------------
(* Claim about the modifiers of get_chord_notes *)

\* the modifiers that are no letters, and those that are
SignModifiers == {<<"7">>, <<degree_sign>>, <<"+">>}
WordModifiers == {<<"d", "i", "m">>, <<"a", "u", "g">>}

\* the chord of get_chord_notes is the one of numeral followed by modifier:
\* on the degree of the numeral, the fifth marked 'b' for dim and the degree
\* sign, '#' for aug and '+'
ChordOfModified(numeral, modifier) ==
    LET scale_notes == get_scale_notes(theory.key, theory.mode)
        d == ROMAN_TO_SCALE_DEGREE(numeral)
        fifth == At(scale_notes, (d + 4) % 7)
    IN  /\ theory.result[1] = At(scale_notes, d)
        /\ theory.result[2] = At(scale_notes, (d + 2) % 7)
        /\ modifier \in {<<"d", "i", "m">>, <<degree_sign>>} =>
              theory.result[3] = Append(fifth, "b")
        /\ modifier \in {<<"a", "u", "g">>, <<"+">>} =>
              theory.result[3] = Append(fifth, "#")
        /\ modifier = <<"7">> =>
              theory.result = <<At(scale_notes, d), At(scale_notes, (d + 2) % 7),
                                fifth, At(scale_notes, (d + 6) % 7)>>

\* C20: for every numeral I..VII, in either case, followed by one of '7',
\* 'dim', the degree sign, 'aug', '+', get_chord_notes returns the chord on
\* the degree of the numeral, with 'b' appended to the fifth for a diminished
\* and '#' for an augmented chord.
C20_ModifiersStripped ==
    (theory.fn = "get_chord_notes" /\ theory.key \in Keys) =>
        \A numeral \in RomanKeys, modifier \in SignModifiers \cup WordModifiers :
            theory.roman_numeral = numeral \o modifier =>
                ChordOfModified(numeral, modifier)

\* what holds: the modifiers that are no letters are stripped
SignModifiersStripped ==
    (theory.fn = "get_chord_notes" /\ theory.key \in Keys) =>
        \A numeral \in RomanKeys, modifier \in SignModifiers :
            theory.roman_numeral = numeral \o modifier =>
                ChordOfModified(numeral, modifier)

----------------------------------------------------------------------------
(* Claims about the chord-comping and percussion generators *)

\* the suffixes of a chord symbol: none, '7', 'dim', 'aug', 'maj7'
Suffixes ==
    { <<>>, <<"7">>, <<"d", "i", "m">>, <<"a", "u", "g">>, <<"m", "a", "j", "7">> }

\* C21: the chord tones MusicGenerator._get_chord_notes resolves for a chord
\* symbol are those get_chord_notes returns for that symbol on the same scale,
\* for every numeral I..VII of either case with no suffix or one of '7', 'dim',
\* 'aug', 'maj7', and for unknown symbols.
C21_ChordTonesAgree ==
    (theory.fn = "_get_chord_notes"
      /\ theory.chord_name \in {b \o m : b \in RomanKeys, m \in Suffixes}
                                \cup UnknownBases) =>
        theory.result = get_chord_notes(theory.key, theory.mode, theory.chord_name)

\* the two agree on a numeral of the table with no suffix or with '7', and on
\* an unknown symbol with no suffix
PlainAndSeventhAgree ==
    (theory.fn = "_get_chord_notes"
      /\ theory.chord_name \in {b \o m : b \in RomanKeys, m \in {<<>>, <<"7">>}}
                                \cup UnknownBases) =>
        theory.result = get_chord_notes(theory.key, theory.mode, theory.chord_name)

\* the styles that have a drum template of their own
DrumStyles == {"rock", "pop", "jazz", "electronic"}

\* C22: the percussion generator uses a template of exactly 10 events per
\* measure for rock, pop, jazz and electronic, and the pop template for every
\* other style; it emits exactly total_measures measures, each holding one note
\* per event of the template.
C22_TenEventTemplate ==
    part.fn = "_generate_rhythm_part" =>
        LET style == score.params.style
        IN  /\ style \in DrumStyles => Len(drum_patterns(style)) = 10
            /\ style \notin DrumStyles => drum_patterns(style) = drum_patterns("pop")
            /\ part.appended # Idle =>
                   /\ part.appended.count = Len(drum_patterns(style))
                   /\ part.appended.number = part.measures
            /\ pc = "insert_part" => part.measures = score.total_measures

\* what holds of it: the measures are as many as asked and each holds one note
\* per event of the template of its style, of 10 (rock), 12 (pop, jazz, and
\* every other style but electronic) or 13 (electronic) events
PercussionFollowsTemplate ==
    part.fn = "_generate_rhythm_part" =>
        LET style == score.params.style
        IN  /\ Len(drum_patterns(style)) =
                  CASE style = "rock" -> 10
                    [] style = "electronic" -> 13
                    [] OTHER -> 12
            /\ style \notin DrumStyles => drum_patterns(style) = drum_patterns("pop")
            /\ part.appended # Idle =>
                   /\ part.appended.count = Len(drum_patterns(style))
                   /\ part.appended.number = part.measures
            /\ pc = "insert_part" => part.measures = score.total_measures

\* the distance of two floats
QDist(a, b) == LET d == QAdd(a, Q(-b[1], b[2])) IN IF d[1] < 0 THEN Q(-d[1], d[2]) ELSE d

\* the event of the template that the note made last was made from
TemplateEvent ==
    LET template == drum_patterns(score.params.style)
    IN  template[Len(template) - Len(gen.rhythm_pattern)]

\* C23: every note of a percussion measure has its offset in [0, 3.99] and its
\* velocity in [80, 100]; in a measure not selected for variation it has exactly
\* the offset of its template event and velocity 90; in a varied measure its
\* offset is within 0.05 beats of the template's and its velocity within 10 of 90.
C23_PercussionNoteBounds ==
    (part.fn = "_generate_rhythm_part" /\ pc = "drums" /\ part.n # Idle) =>
        /\ QLe(Q(0, 1), part.n.offset) /\ QLe(part.n.offset, Q(399, 100))
        /\ part.n.velocity \in 80..100
        /\ part.n.pitches = <<TemplateEvent[2]>>
        /\ part.n.quarterLength = TemplateEvent[3]
        /\ IF gen.add_variation
           THEN /\ QLe(QDist(part.n.offset, TemplateEvent[1]), Q(1, 20))
                /\ part.n.velocity - 90 \in -10..10
           ELSE /\ part.n.offset = TemplateEvent[1]
                /\ part.n.velocity = 90

\* the last hi-hat of a varied rock measure, as late and as loud as it can be:
\* offset 3.55, velocity 100
C23_Witness ==
    /\ part.fn = "_generate_rhythm_part"
    /\ pc = "drums"
    /\ score.params.style = "rock"
    /\ gen.add_variation
    /\ gen.rhythm_pattern = <<>>
    /\ part.n # Idle
    /\ part.n.offset = Q(71, 20)
    /\ part.n.velocity = 100
    /\ part.measure.count = 10

\* the measure appended is four strums of the full chord, of 1 beat each, at
\* offsets 0, 1, 2, 3
FourStrums ==
    /\ part.appended.count = 4
    /\ part.appended.first = Q(0, 1)
    /\ part.appended.contiguous
    /\ part.appended.highest = Q(4, 1)
    /\ part.n # Idle
    /\ part.n.kind = "Chord"
    /\ part.n.pitches = ChordNotesOfMeasure_Done
    /\ part.n.quarterLength = Q(1, 1)
    /\ part.n.offset = Q(3, 1)

\* the chord-complexity handed to generate is set and below 0.4
HandedBelowThreshold ==
    /\ score.params.chord_complexity # None
    /\ QLt(score.params.chord_complexity, Q(2, 5))

\* C24: in the pop and rock styles, whenever the chord-complexity handed to
\* generate is below 0.4, 0.0 included, every chord-comping measure is four
\* full-chord strums of 1 beat at offsets 0, 1, 2, 3; the pattern of stabs is
\* taken only for a complexity of 0.4 or more.
C24_StrumBelowThreshold ==
    (part.fn = "_generate_chord_part" /\ score.params.style \in {"pop", "rock"}
      /\ HandedBelowThreshold) =>
        /\ part.appended # Idle => FourStrums
        /\ pc \notin {"generate_rhythm_pattern", "stabs"}

\* what holds of it: the same for a complexity that is above 0.0
StrumBelowThresholdAboveZero ==
    (part.fn = "_generate_chord_part" /\ score.params.style \in {"pop", "rock"}
      /\ HandedBelowThreshold /\ score.params.chord_complexity # Q(0, 1)) =>
        /\ part.appended # Idle => FourStrums
        /\ pc \notin {"generate_rhythm_pattern", "stabs"}

\* the styles _generate_chord_part has a routine for
PatternStyles == {"classical", "jazz", "pop", "rock"}

\* C25: the chord-comping generator dispatches on the style: classical, jazz
\* and pop or rock each go to their own routine, and every other style yields,
\* without error, exactly one chord of 4 beats at offset 0 per measure; the part
\* has exactly total_measures measures numbered 1..total_measures, the k-th
\* built on the element (k - 1) mod len(progression) of the progression.
C25_ChordDispatch ==
    part.fn = "_generate_chord_part" =>
        LET style == score.params.style
            progression == score.params.chord_progression
        IN  /\ pc # "raised"
            /\ pc \in {"generate_rhythm_pattern", "stabs"} => style \in {"pop", "rock"}
            /\ pc = "insert_part" => part.measures = score.total_measures
            /\ part.appended # Idle =>
                   LET k == part.appended.number
                   IN  /\ k = part.measures
                       /\ k \in 1..score.total_measures
                       /\ gen.chord = At(progression, (k - 1) % Len(progression))
                       /\ style = "classical" =>
                              /\ part.appended.count \in {2, 8}
                              /\ part.n.kind = (IF part.appended.count = 8
                                                THEN "Note" ELSE "Chord")
                       /\ style = "jazz" =>
                              /\ part.appended.count = 4
                              /\ part.n.kind = "Chord"
                              /\ part.n.quarterLength = Q(1, 2)
                       /\ style \in {"pop", "rock"} => (part.n = Idle \/ FourStrums)
                       /\ style \notin PatternStyles =>
                              /\ part.appended.count = 1
                              /\ part.appended.first = Q(0, 1)
                              /\ part.appended.highest = Q(4, 1)
                              /\ part.n.kind = "Chord"
                              /\ part.n.pitches =
                                     MG_get_chord_notes(gen.chord, score.scale_notes)
                              /\ part.n.quarterLength = Q(4, 1)
                              /\ part.n.offset = Q(0, 1)

\* the third measure of a part in an unknown style, on a progression of two
\* chords: one chord of the whole measure, on the first chord again
C25_Witness ==
    /\ part.fn = "_generate_chord_part"
    /\ score.params.style = "ambient"
    /\ Len(score.params.chord_progression) = 2
    /\ part.appended # Idle
    /\ part.appended.number = 3
    /\ part.appended.count = 1
    /\ gen.chord = <<"I">>
    /\ part.n.pitches = << <<"C">>, <<"E">>, <<"G">> >>

----------------------------------------------------------------------------
(* Claims about termination *)

\* C26: every generator call terminates: generate_rhythm_pattern,
\* generate_melody, generate_bass_line and the chord-comping generator return
\* (or raise) for every num_measures >= 0 and every progression, an empty
\* progression with num_measures >= 1 included.
C26_Terminates == <>(pc \in {"returned", "raised"})

\* generate_rhythm_pattern stops after at most 16 draws
RhythmDrawsBounded ==
    rhythm.fn = "generate_rhythm_pattern" =>
        /\ Len(rhythm.pattern) <= 16
        /\ rhythm_continues(rhythm.total_duration) => Len(rhythm.pattern) < 16

\* what holds of it: generate_rhythm_pattern terminates, and so does a generator
\* called on a progression that is not empty, or for no measure
NonEmptyTerminates ==
    (\/ rhythm.fn # "none"
     \/ gen.fn # "none" /\ (gen.progression # <<>> \/ gen.num_measures = 0))
        ~> (pc \in {"returned", "raised"})

\* on a progression that is not empty the while loop is left after at most
\* num_measures iterations, and the loop over the measures after num_measures
LoopsBounded ==
    (gen.fn # "none" /\ gen.progression # <<>>) =>
        /\ Len(gen.extended_progression)
              < gen.num_measures + Len(gen.progression)
        /\ pc = "extending" =>
              Len(gen.extended_progression) \div Len(gen.progression)
                  < gen.num_measures
        /\ gen.measure_idx <= gen.num_measures

\* a call on an empty progression for one measure or more never leaves the
\* while loop
EmptyProgressionSpins ==
    (gen.fn # "none" /\ gen.progression = <<>> /\ gen.num_measures >= 1) =>
        pc \in {"extend", "extending"}

----------------------------------------------------------------------------
(* Claims about the roles of the instruments *)

\* the role lists of lines 443-455, as the claim's precedence reads them
RoleOf(instrument_name) ==
    CASE instrument_name \in {"Bass", "Bass Guitar", "Double Bass", "Synth Bass",
                              "Electric Bass", "Contrabass"} -> "_generate_bass_part"
      [] instrument_name \in {"Drums", "Percussion", "Drum Kit"} ->
             "_generate_rhythm_part"
      [] instrument_name \in {"Piano", "Guitar", "Electric Guitar", "Synth", "Pad"} ->
             "_generate_chord_part"
      [] OTHER -> "_generate_melody_part"

\* C27 as stated: each instrument name is given one role by the precedence bass,
\* percussion, chord, else melody; a name outside the instrument table raises
\* nothing, is rendered with the Piano instrument and is given the melody role.
C27_Original ==
    score.fn = "generate" =>
        /\ pc # "raised"
        /\ \A k \in 1..Len(score.parts) :
               LET p == score.parts[k]
               IN  /\ p.fn = RoleOf(p.instrument_name)
                   /\ p.instrument_name \notin instrument_map_keys =>
                          /\ p.instrument = "Piano"
                          /\ p.fn = "_generate_melody_part"

\* C27: each instrument name is given one role by the precedence bass,
\* percussion, chord, else melody, whether or not it is in the instrument
\* table; a name outside the table raises nothing and is rendered with the
\* Piano instrument; it is given the melody role when it is in no role list,
\* and the role of its list when it is in one ('Drum Kit': percussion).  The
\* same holds of the part under construction.
C27_RoleByPrecedence ==
    score.fn = "generate" =>
        /\ pc # "raised"
        /\ \A k \in 1..Len(score.parts) :
               LET p == score.parts[k]
               IN  /\ p.fn = RoleOf(p.instrument_name)
                   /\ p.instrument_name \notin instrument_map_keys =>
                          p.instrument = "Piano"
                   /\ p.instrument_name = "Piano" =>
                          (p.instrument = "Piano" /\ p.fn = "_generate_chord_part")
        /\ (part # Idle /\ score.todo # <<>>) =>
               /\ part.fn = RoleOf(Head(score.todo))
               /\ Head(score.todo) \notin instrument_map_keys =>
                      part.instrument = "Piano"

\* a composition with 'Kazoo', a name of no table: its part is a melody on the
\* Piano instrument, next to the chord part of 'Synth'
C27_Witness ==
    /\ pc = "returned"
    /\ score.fn = "generate"
    /\ Len(score.parts) = 3
    /\ score.parts[2].instrument_name = "Kazoo"
    /\ score.parts[2].instrument = "Piano"
    /\ score.parts[2].fn = "_generate_melody_part"
    /\ score.parts[1].fn = "_generate_chord_part"

----------------------------------------------------------------------------
(* Claims about the pitches of the melody and of the bass line *)

\* the elements of a list
Elements(seq) == {seq[k] : k \in 1..Len(seq)}

\* C28: every pitch generate_melody and generate_bass_line put out is a note
\* of the scale passed in or 'rest', whatever the progression, the number of
\* measures and the draws.
C28_PitchesInScale ==
    (gen # Idle /\ gen.fn \in {"generate_melody", "generate_bass_line"}) =>
        \A k \in 1..Len(gen.out) :
            gen.out[k][1] = rest \/ gen.out[k][1] \in Elements(gen.scale_notes)

\* the walking bass on 'V7' in E flat minor has just been put out: B flat, D
\* flat, F and the approach note A flat, scale[(4 + 6) % 7]
C28_Witness ==
    /\ pc = "pack"
    /\ gen.fn = "generate_bass_line"
    /\ gen.scale_notes = get_scale_notes(<<"E", "b">>, "minor")
    /\ gen.chord = <<"V", "7">>
    /\ Len(gen.out) = 4
    /\ gen.out[4][1] = At(gen.scale_notes, 3)
    /\ gen.out[1][1] = At(gen.scale_notes, 4)

----------------------------------------------------------------------------
(* Claims about the placement of the chord-comping events *)

\* the measure a chord part is building or has just built holds an event
CompingMeasure ==
    /\ gen # Idle
    /\ gen.fn = "_generate_chord_part"
    /\ part # Idle
    /\ part.measure.count > 0

\* the measure is built by the stabs of lines 273-290
OnStabPath ==
    /\ score.params.style \in {"pop", "rock"}
    /\ ~QLt(gen.complexity, Q(4, 10))

\* C29: every event of a chord-comping measure, for every style and every
\* complexity, has its offset in [0, 4) and ends at or before beat 4.
C29_EventsInsideMeasure ==
    CompingMeasure =>
        /\ QLe(Q(0, 1), part.measure.first)
        /\ QLt(part.measure.last_offset, Q(4, 1))
        /\ QLe(part.measure.highest, Q(4, 1))

\* the offsets are in [0, 4) on every path, the stabs included
OffsetsInsideMeasure ==
    CompingMeasure =>
        /\ QLe(Q(0, 1), part.measure.first)
        /\ QLt(part.measure.last_offset, Q(4, 1))

\* off the stab path every event ends at or before beat 4
PatternsEndInsideMeasure ==
    (CompingMeasure /\ ~OnStabPath) => QLe(part.measure.highest, Q(4, 1))

----------------------------------------------------------------------------
(* Claims about the scalars compose hands to the generators *)

\* compose has applied the style model, or generate is at work on its result
Composing == runs.fn = "compose" /\ score.fn \in {"compose", "generate"}

\* the parameters compose hands to generate, and generate to the generators
ComposeUses == IF score.fn = "compose" THEN score.parameters ELSE score.params

\* C30: compose leaves the caller's chord_complexity and rhythm_variation as
\* they are when the style is not in the catalog, and when it is, the values
\* the generators use are the caller's whenever the caller set them.
C30_CallerScalarsKept ==
    Composing =>
        LET given == runs.given
            used == ComposeUses
        IN  IF Contains(style_names, given.style)
            THEN /\ given.chord_complexity # None =>
                       used.chord_complexity = given.chord_complexity
                 /\ given.rhythm_variation # None =>
                       used.rhythm_variation = given.rhythm_variation
            ELSE /\ used.chord_complexity = given.chord_complexity
                 /\ used.rhythm_variation = given.rhythm_variation

\* outside the catalog compose leaves both scalars as the caller gave them
OutsideCatalogKept ==
    (Composing /\ ~Contains(style_names, runs.given.style)) =>
        /\ ComposeUses.chord_complexity = runs.given.chord_complexity
        /\ ComposeUses.rhythm_variation = runs.given.rhythm_variation

\* inside the catalog both scalars are the style's, whatever the caller gave
InsideCatalogStyleValues ==
    (Composing /\ Contains(style_names, runs.given.style)) =>
        /\ ComposeUses.chord_complexity =
               style_models(runs.given.style).chord_complexity
        /\ ComposeUses.rhythm_variation =
               style_models(runs.given.style).rhythm_variation

====
